---- MODULE Spec2Model ----
(***************************************************************************)
(* A model of the cassandra Bayesian-network inference engine.             *)
(*                                                                         *)
(*   - cassandra.core (src/src/cassandra/core): discrete nodes with        *)
(*     tabular CPDs, tabular factors (numpy arrays), sum_product_eliminate *)
(*     and Network.query.                                                  *)
(*   - cassandra.network (src/cassandra/network.py): continuous nodes,     *)
(*     functional factors (closures) and BayesianNetwork.infer.            *)
(*                                                                         *)
(* Numbers.  A float is modelled by an exact rational.  A numpy array is   *)
(* [shape, data, den]: its shape, its elements in logical C (row-major)    *)
(* order as integers, and one common denominator `den`, so that element k  *)
(* stands for data[k] / den.  reshape keeps `data` and changes `shape`,    *)
(* which is what numpy.reshape does.                                       *)
(***************************************************************************)
EXTENDS Integers, Sequences, FiniteSets, TLC

VARIABLES
    mode,       \* which part of the library this behaviour exercises
    f, g, h,    \* the operands of the factor operations, tabular or functional
    op,         \* the last factor operation applied: [name, ...arguments]
    res,        \* its outcome: a Factor, a number or a raised error
    net,        \* the network under construction or being queried
    call,       \* the arguments of the call in progress
    act         \* the activation of the query: its position and locals

factorVars == <<f, g, h, op, res>>

queryVars == <<net, call, act>>

vars == <<mode, f, g, h, op, res, net, call, act>>

-----------------------------------------------------------------------------
(* Sequences and Python lists *)

Range(s) == {s[i] : i \in DOMAIN s}

\* list.index(x)
IndexOf(s, x) == CHOOSE i \in DOMAIN s : s[i] = x

\* x in list
InList(s, x) == \E i \in DOMAIN s : s[i] = x

RECURSIVE SeqProd(_)
SeqProd(s) == IF s = <<>> THEN 1 ELSE Head(s) * SeqProd(Tail(s))

RECURSIVE SeqSum(_)
SeqSum(s) == IF s = <<>> THEN 0 ELSE Head(s) + SeqSum(Tail(s))

Front(s) == SubSeq(s, 1, Len(s) - 1)

Last(s) == s[Len(s)]

\* s with position i removed
RemoveAt(s, i) == SubSeq(s, 1, i - 1) \o SubSeq(s, i + 1, Len(s))

\* s with x inserted so that it becomes position i
InsertAt(s, i, x) == SubSeq(s, 1, i - 1) \o <<x>> \o SubSeq(s, i, Len(s))

\* the sequences over S without repetition, of length 1..n
DistinctSeqs(S, n) ==
    UNION {{s \in [1..k -> S] : \A i, j \in 1..k : s[i] = s[j] => i = j} : k \in 1..n}

\* the orders in which a Python set of n objects may be iterated
IterOrders(n) == {p \in [1..n -> 1..n] : \A i, j \in 1..n : p[i] = p[j] => i = j}

-----------------------------------------------------------------------------
(* Results.  An operation returns a value or raises; both are records with *)
(* a `kind`.                                                               *)

Raise(exc, msg) == [kind |-> "raise", exc |-> exc, msg |-> msg]

Raised(r) == r.kind = "raise"

\* a float, as the rational num / den
Float(num, den) == [kind |-> "float", num |-> num, den |-> den]

\* equality of two floats
FloatEq(x, y) == x.num * y.den = y.num * x.den

None == [kind |-> "None"]

-----------------------------------------------------------------------------
(* numpy arrays *)

Array(shape, data, den) ==
    [kind |-> "ndarray", shape |-> shape, data |-> data, den |-> den]

\* the offset (from 0) in C order of the index tuple idx (each from 0)
RECURSIVE Ravel(_, _)
Ravel(idx, shape) ==
    IF idx = <<>> THEN 0
    ELSE Ravel(Front(idx), Front(shape)) * Last(shape) + Last(idx)

\* the index tuple of offset k
RECURSIVE Unravel(_, _)
Unravel(k, shape) ==
    IF shape = <<>> THEN <<>>
    ELSE Append(Unravel(k \div Last(shape), Front(shape)), k % Last(shape))

\* arr[tuple(idx)]
At(arr, idx) == arr.data[Ravel(idx, arr.shape) + 1]

\* arr.reshape(shape): the same elements in the same C order
Reshape(arr, shape) ==
    IF SeqProd(shape) # Len(arr.data)
    THEN Raise("ValueError", "cannot reshape array")
    ELSE Array(shape, arr.data, arr.den)

\* a * b for arrays of the same number of dimensions, with broadcasting of
\* the axes of size 1
BroadcastMul(a, b) ==
    IF \E i \in DOMAIN a.shape :
           a.shape[i] # b.shape[i] /\ a.shape[i] # 1 /\ b.shape[i] # 1
    THEN Raise("ValueError", "operands could not be broadcast together")
    ELSE LET shape == [i \in DOMAIN a.shape |->
                          IF a.shape[i] = 1 THEN b.shape[i] ELSE a.shape[i]]
             Pick(arr, idx) ==
                 At(arr, [i \in DOMAIN idx |-> IF arr.shape[i] = 1 THEN 0 ELSE idx[i]])
         IN  Array(shape,
                   [k \in 1..SeqProd(shape) |->
                       Pick(a, Unravel(k - 1, shape)) * Pick(b, Unravel(k - 1, shape))],
                   a.den * b.den)

\* np.sum(arr, axis=ax - 1): ax is the position (from 1) of the axis
SumAxis(arr, ax) ==
    LET shape == RemoveAt(arr.shape, ax)
        RECURSIVE Acc(_, _)
        Acc(idx, j) ==
            IF j = 0 THEN 0
            ELSE At(arr, InsertAt(idx, ax, j - 1)) + Acc(idx, j - 1)
    IN  Array(shape,
              [k \in 1..SeqProd(shape) |-> Acc(Unravel(k - 1, shape), arr.shape[ax])],
              arr.den)

\* np.sum(arr), in units of 1 / arr.den
SumAll(arr) == SeqSum(arr.data)

-----------------------------------------------------------------------------
(* cassandra.core.factor: tabular factors *)

\* Factor.__init__
Factor(scope, values) ==
    IF Cardinality(Range(scope)) # Len(scope)
    THEN Raise("ValueError", "The scope must be unique")
    ELSE IF Len(values.shape) # Len(scope)
    THEN Raise("ValueError", "wrong number of dimensions")
    ELSE [kind |-> "Factor", scope |-> scope, values |-> values]

\* evaluate with keys beyond the scope accepted
EvaluateAcceptsExtraKeys(self, assignments) ==
    IF ~(Range(self.scope) \subseteq DOMAIN assignments)
    THEN Raise("ValueError", "The assignments are invalid")
    ELSE IF \E v \in Range(self.scope) :
                \/ assignments[v] < 0
                \/ assignments[v] >= self.values.shape[IndexOf(self.scope, v)]
    THEN Raise("ValueError", "The value is invalid for variable")
    ELSE LET indices == [i \in DOMAIN self.scope |-> assignments[self.scope[i]]]
         IN  Float(At(self.values, indices), self.values.den)

\* Factor.evaluate; assignments is a dict, modelled as a function from its
\* keys to its values
Evaluate(self, assignments) ==
    IF Range(self.scope) # DOMAIN assignments
    THEN Raise("ValueError", "The assignments are invalid")
    ELSE IF \E v \in DOMAIN assignments :
                \/ assignments[v] < 0
                \/ assignments[v] >= self.values.shape[IndexOf(self.scope, v)]
    THEN Raise("ValueError", "The value is invalid for variable")
    ELSE LET indices == [i \in DOMAIN self.scope |-> assignments[self.scope[i]]]
         IN  Float(At(self.values, indices), self.values.den)

\* Factor.evaluate, lines 85-86 included: non_integers are the keys whose
\* value is not an instance of int (the float assignments[key] + 0.5)
EvaluateTyped(self, assignments, non_integers) ==
    IF non_integers \cap DOMAIN assignments # {}
    THEN Raise("ValueError", "The values of the assignments must be integers")
    ELSE Evaluate(self, assignments)

\* the shape of a factor's values laid out along new_scope, with an axis of
\* size 1 for each variable the factor does not have
ExtendedShape(fac, new_scope) ==
    [i \in DOMAIN new_scope |->
        IF InList(fac.scope, new_scope[i])
        THEN fac.values.shape[IndexOf(fac.scope, new_scope[i])]
        ELSE 1]

\* a scope for the product that puts the new variables of other first,
\* where multiply puts them last
MultiplyScopeNewFirst(self, other) ==
    LET NotInSelf(v) == ~InList(self.scope, v)
    IN  SelectSeq(other.scope, NotInSelf) \o self.scope

\* the scope of self.multiply(other)
MultiplyScope(self, other) ==
    LET NotInSelf(v) == ~InList(self.scope, v)
    IN  self.scope \o SelectSeq(other.scope, NotInSelf)

\* Factor.multiply
Multiply(self, other) ==
    LET new_scope == MultiplyScope(self, other)
        self_values_reshaped ==
            Reshape(self.values, ExtendedShape(self, new_scope))
        other_values_reshaped ==
            Reshape(other.values, ExtendedShape(other, new_scope))
    IN  IF Raised(self_values_reshaped) THEN self_values_reshaped
        ELSE IF Raised(other_values_reshaped) THEN other_values_reshaped
        ELSE LET new_values ==
                     BroadcastMul(self_values_reshaped, other_values_reshaped)
             IN  IF Raised(new_values) THEN new_values
                 ELSE Factor(new_scope, new_values)

\* a scope for the sum that moves the variables after the one summed out
\* to the front, where sum_out keeps the order
SumOutScopeRotated(self, variable) ==
    LET k == IndexOf(self.scope, variable)
    IN  SubSeq(self.scope, k + 1, Len(self.scope)) \o SubSeq(self.scope, 1, k - 1)

\* the scope of self.sum_out(variable)
SumOutScope(self, variable) ==
    LET Other(v) == v # variable
    IN  SelectSeq(self.scope, Other)

\* sum_out that sums along the first axis whichever the variable is
SumOutFirstAxis(self, variable) ==
    IF ~InList(self.scope, variable)
    THEN Raise("ValueError", "The variable to sum out is not in the factor")
    ELSE IF Len(self.scope) = 1
    THEN Raise("ValueError", "The variable is the only variable in the factor")
    ELSE Factor(SumOutScope(self, variable), SumAxis(self.values, 1))

\* sum_out without the check that another variable is left
SumOutToScalar(self, variable) ==
    IF ~InList(self.scope, variable)
    THEN Raise("ValueError", "The variable to sum out is not in the factor")
    ELSE Factor(SumOutScope(self, variable),
                SumAxis(self.values, IndexOf(self.scope, variable)))

\* Factor.sum_out
SumOut(self, variable) ==
    IF ~InList(self.scope, variable)
    THEN Raise("ValueError", "The variable to sum out is not in the factor")
    ELSE IF Len(self.scope) = 1
    THEN Raise("ValueError", "The variable is the only variable in the factor")
    ELSE Factor(SumOutScope(self, variable),
                SumAxis(self.values, IndexOf(self.scope, variable)))

\* Factor.normalise: it returns None and rebinds self.values; the outcome is
\* given as [ret, self]: what the call returns or raises, and self after it
Normalise(self) ==
    IF SumAll(self.values) = 0
    THEN [ret |-> Raise("ValueError", "The sum of the values is zero"), self |-> self]
    ELSE [ret  |-> None,
          self |-> [self EXCEPT !.values.den = SumAll(self.values)]]

-----------------------------------------------------------------------------
(* cassandra.network: continuous nodes.                                    *)
(*                                                                         *)
(* A variable takes integer values; scipy's quad over [lo, hi] is the sum  *)
(* of the integrand over the integer points lo..hi, negated when lo > hi.  *)
(* A density value is Num(v, np): the non-negative integer v, and whether  *)
(* Python holds it as a numpy float64 (what norm.pdf returns) or as a      *)
(* Python int or float (a literal 0 or 1, a result of quad): the two       *)
(* differ in what a division by zero does.                                 *)

Num(v, np) == [kind |-> "num", v |-> v, np |-> np]

\* Python's order on the variable names
VarOrder == <<"A", "B", "C", "D">>

\* sorted(s) for a list s of variable names
SortedNames(s) ==
    LET RECURSIVE Build(_)
        Build(k) ==
            IF k = 0 THEN <<>>
            ELSE LET Same(v) == v = VarOrder[k]
                 IN  Build(k - 1) \o SelectSeq(s, Same)
    IN  Build(Len(VarOrder))

\* sorted(list(S)) for a set S of variable names
SortedSet(S) ==
    LET InS(v) == v \in S
    IN  SelectSeq(VarOrder, InS)

\* a dict, as a function from its keys to its values
EmptyDict == [k \in {} |-> 0]

\* {key: value, **d}: a value d has for key is kept
DictSetKeep(d, key, value) ==
    [k \in DOMAIN d \cup {key} |-> IF k \in DOMAIN d THEN d[k] ELSE value]

\* {**d, key: value}
DictSet(d, key, value) ==
    [k \in DOMAIN d \cup {key} |-> IF k = key THEN value ELSE d[k]]

\* {key: value for key, value in d.items() if key in scope}
DictFilter(d, scope) == [k \in DOMAIN d \cap Range(scope) |-> d[k]]

\* a user-supplied callable, by name
Callable(name) == [kind |-> "callable", name |-> name]

RootParameters(loc, scale) == [kind |-> "dict", loc |-> loc, scale |-> scale]

ChildParameters(intercept, slope, scale) ==
    [kind |-> "dict", intercept |-> intercept, slope |-> slope, scale |-> scale]

\* Node.__init__ with a root accepted without distribution parameters
NodeParametersOptional(variable_name, domain, parent_variable_names, system_parameter_names, equation, marginal_pdf, distribution_parameters) ==
    LET base == [kind |-> "Node",
                 variable_name |-> variable_name,
                 domain |-> domain,
                 parent_variable_names |-> parent_variable_names,
                 system_parameter_names |-> system_parameter_names]
    IN  IF Len(parent_variable_names) = 0
        THEN IF marginal_pdf = None
             THEN Raise("ValueError", "Root nodes must have a marginal probability distribution and distribution parameters.")
             ELSE base @@ [type |-> "ROOT",
                           marginal |-> marginal_pdf,
                           equation |-> None,
                           distribution_parameters |-> distribution_parameters]
        ELSE IF equation = None
             THEN Raise("ValueError", "Child nodes must have an equation.")
             ELSE base @@ [type |-> "CHILD",
                           marginal |-> None,
                           equation |-> equation,
                           distribution_parameters |->
                               IF distribution_parameters = None
                               THEN ChildParameters(0, 1, 1)
                               ELSE distribution_parameters]

\* Node.__init__
Node(variable_name, domain, parent_variable_names, system_parameter_names, equation, marginal_pdf, distribution_parameters) ==
    LET base == [kind |-> "Node",
                 variable_name |-> variable_name,
                 domain |-> domain,
                 parent_variable_names |-> parent_variable_names,
                 system_parameter_names |-> system_parameter_names]
    IN  IF Len(parent_variable_names) = 0
        THEN IF marginal_pdf = None \/ distribution_parameters = None
             THEN Raise("ValueError", "Root nodes must have a marginal probability distribution and distribution parameters.")
             ELSE base @@ [type |-> "ROOT",
                           marginal |-> marginal_pdf,
                           equation |-> None,
                           distribution_parameters |-> distribution_parameters]
        ELSE IF equation = None
             THEN Raise("ValueError", "Child nodes must have an equation.")
             ELSE base @@ [type |-> "CHILD",
                           marginal |-> None,
                           equation |-> equation,
                           distribution_parameters |->
                               IF distribution_parameters = None
                               THEN ChildParameters(0, 1, 1)
                               ELSE distribution_parameters]

Abs(x) == IF x < 0 THEN -x ELSE x

\* scipy.stats.norm.pdf(x, loc, scale): positive, largest at loc, falling
\* with the distance from loc, the slower the larger the scale
NormPdf(x, loc, scale) ==
    LET d == Abs(x - loc)
    IN  Num(IF d = 0 THEN 4 ELSE IF d <= scale THEN 2 ELSE 1, TRUE)

\* the user's structural equation called on (parents, theta):
\*   "first":      lambda v, p: v[first parent]
\*   "scaled_sum": lambda v, p: p["state"] * (sum of the parents)
CallEquation(self, parent_variable_values, system_parameter_values) ==
    LET ps == self.parent_variable_names
    IN  IF \E i \in DOMAIN ps : ps[i] \notin DOMAIN parent_variable_values
        THEN Raise("KeyError", "parent")
        ELSE IF self.equation.name = "first"
        THEN Num(parent_variable_values[ps[1]], FALSE)
        ELSE IF "state" \notin DOMAIN system_parameter_values
        THEN Raise("KeyError", "state")
        ELSE Num(system_parameter_values["state"]
                     * SeqSum([i \in DOMAIN ps |-> parent_variable_values[ps[i]]]),
                 FALSE)

\* Node.equation
Equation(self, parent_variable_values, system_parameter_values) ==
    CallEquation(self, parent_variable_values, system_parameter_values)

\* Node.conditional_pdf
ConditionalPdf(self, variable_value, parent_variable_values, system_parameter_values) ==
    IF self.type = "ROOT"
    THEN Raise("ValueError", "Root nodes do not have a conditional probability distribution.")
    ELSE IF variable_value < self.domain[1] \/ variable_value > self.domain[2]
    THEN Num(0, FALSE)
    ELSE LET theoretical_value ==
                 Equation(self, parent_variable_values, system_parameter_values)
         IN  IF Raised(theoretical_value) THEN theoretical_value
             ELSE NormPdf(variable_value,
                          self.distribution_parameters.intercept
                              + self.distribution_parameters.slope * theoretical_value.v,
                          self.distribution_parameters.scale)

\* the user's marginal density called on (x, **distribution_parameters):
\*   "norm_pdf": scipy.stats.norm.pdf
\*   "state_norm": lambda x, state, loc, scale: state * norm.pdf(x, loc, scale),
\*                 a density that needs the system parameter `state`
\*   "one":      lambda x, **kw: 1
CallMarginal(self, variable_value) ==
    IF self.marginal.name = "norm_pdf"
    THEN NormPdf(variable_value, self.distribution_parameters.loc,
                 self.distribution_parameters.scale)
    ELSE IF self.marginal.name = "state_norm"
    THEN IF "state" \notin DOMAIN self.distribution_parameters
         THEN Raise("TypeError", "missing 1 required positional argument: 'state'")
         ELSE Num(self.distribution_parameters.state
                      * NormPdf(variable_value, self.distribution_parameters.loc,
                                self.distribution_parameters.scale).v,
                  TRUE)
    ELSE Num(1, FALSE)

\* Node.marginal_pdf
MarginalPdf(self, variable_value, system_parameter_values) ==
    IF self.type = "CHILD"
    THEN Raise("ValueError", "Child nodes do not have a predefined marginal probability distribution.")
    ELSE IF variable_value < self.domain[1] \/ variable_value > self.domain[2]
    THEN Num(0, FALSE)
    ELSE CallMarginal(self, variable_value)

-----------------------------------------------------------------------------
(* cassandra.network: functional factors.  The closure a factor holds as   *)
(* _pdf is the record `pdf`: what it was built from.                       *)

\* Factor.__init__ (from a node)
NodeFactor(node) ==
    [kind  |-> "Factor",
     scope |-> SortedNames(<<node.variable_name>> \o node.parent_variable_names),
     pdf   |-> [tag |-> "node", node |-> node]]

\* Factor.__mul__
Mul(self, other) ==
    IF other.kind # "Factor"
    THEN Raise("TypeError", "Both multiplication operands must be instances of the Factor class.")
    ELSE [kind  |-> "Factor",
          scope |-> SortedSet(Range(self.scope) \cup Range(other.scope)),
          pdf   |-> [tag |-> "mul", self |-> self, other |-> other]]

\* scipy.integrate.quad(integrand, lo, hi)[0] for an integrand given by its
\* values on lo..hi (or hi..lo): the first exception an evaluation raises,
\* else the sum, a Python float
QuadValues(values, lo, hi) ==
    LET a == IF lo <= hi THEN lo ELSE hi
        b == IF lo <= hi THEN hi ELSE lo
        RECURSIVE Acc(_)
        Acc(t) ==
            IF t > b THEN Num(0, FALSE)
            ELSE IF Raised(values[t]) THEN values[t]
            ELSE LET rest == Acc(t + 1)
                 IN  IF Raised(rest) THEN rest
                     ELSE Num(values[t].v + rest.v, FALSE)
        total == Acc(a)
    IN  IF Raised(total) \/ lo <= hi THEN total ELSE Num(-total.v, FALSE)

\* Factor.pdf, with the three closures it may dispatch to: the pdf of
\* Factor.__init__, the new_pdf of Factor.__mul__ and the new_pdf of
\* BayesianNetwork._marginalise_factor
RECURSIVE Pdf(_, _, _)
Pdf(self, variable_values, system_parameter_values) ==
    IF ~(Range(self.scope) \subseteq DOMAIN variable_values)
    THEN Raise("KeyError", "The values of all variables in the scope must be provided.")
    ELSE IF self.pdf.tag = "node"
    THEN LET node == self.pdf.node
         IN  IF node.type = "ROOT"
             THEN MarginalPdf(node, variable_values[node.variable_name],
                              system_parameter_values)
             ELSE ConditionalPdf(node, variable_values[node.variable_name],
                      [i \in Range(node.parent_variable_names) |-> variable_values[i]],
                      system_parameter_values)
    ELSE IF self.pdf.tag = "mul"
    THEN LET p1 == Pdf(self.pdf.self,
                       DictFilter(variable_values, self.pdf.self.scope),
                       system_parameter_values)
             p2 == Pdf(self.pdf.other,
                       DictFilter(variable_values, self.pdf.other.scope),
                       system_parameter_values)
         IN  IF Raised(p1) THEN p1
             ELSE IF Raised(p2) THEN p2
             ELSE Num(p1.v * p2.v, p1.np \/ p2.np)
    ELSE LET lo == self.pdf.domain[1]
             hi == self.pdf.domain[2]
             integrand ==
                 [t \in (lo..hi) \cup (hi..lo) |->
                     Pdf(self.pdf.factor,
                         DictSet(variable_values, self.pdf.variable, t),
                         system_parameter_values)]
         IN  QuadValues(integrand, lo, hi)

-----------------------------------------------------------------------------
(* cassandra.network: BayesianNetwork.  The dict self.nodes is the         *)
(* sequence of its values in insertion order; the keys are their names.    *)

\* {node.variable_name: node for node in nodes}: a key keeps the place of
\* its first insertion and the value of its last
NodesDict(nodes) ==
    LET FirstOfName(i) == \A j \in 1..(i - 1) :
                              nodes[j].variable_name # nodes[i].variable_name
        LastOfName(i) == \A j \in (i + 1)..Len(nodes) :
                              nodes[j].variable_name # nodes[i].variable_name
        RECURSIVE Build(_)
        Build(i) ==
            IF i > Len(nodes) THEN <<>>
            ELSE IF FirstOfName(i)
            THEN <<nodes[CHOOSE j \in i..Len(nodes) :
                             /\ nodes[j].variable_name = nodes[i].variable_name
                             /\ LastOfName(j)]>> \o Build(i + 1)
            ELSE Build(i + 1)
    IN  Build(1)

\* self.nodes.keys()
Keys(nodes) == {nodes[i].variable_name : i \in DOMAIN nodes}

\* self.nodes[name]
NodeNamed(nodes, name) == nodes[CHOOSE i \in DOMAIN nodes : nodes[i].variable_name = name]

\* BayesianNetwork.__init__
BayesianNetwork(nodes) ==
    LET dict == NodesDict(nodes)
    IN  IF \E i \in DOMAIN dict :
               \E k \in DOMAIN dict[i].parent_variable_names :
                   dict[i].parent_variable_names[k] \notin Keys(dict)
        THEN Raise("ValueError", "is not in the Bayesian network.")
        ELSE [kind  |-> "BayesianNetwork",
              nodes |-> dict,
              edges |-> {e \in Keys(dict) \X Keys(dict) :
                            \E i \in DOMAIN dict :
                                /\ dict[i].variable_name = e[2]
                                /\ InList(dict[i].parent_variable_names, e[1])},
              system_parameter_names |->
                  UNION {Range(dict[i].system_parameter_names) : i \in DOMAIN dict}]

\* BayesianNetwork._get_joint_factorisation
GetJointFactorisation(self) == [i \in DOMAIN self.nodes |-> NodeFactor(self.nodes[i])]

\* BayesianNetwork._compute_factor_product: reduce(lambda x, y: x * y, factors)
RECURSIVE ComputeFactorProduct(_)
ComputeFactorProduct(factors) ==
    IF Len(factors) = 0
    THEN Raise("TypeError", "reduce() of empty iterable with no initial value")
    ELSE IF Len(factors) = 1 THEN factors[1]
    ELSE Mul(ComputeFactorProduct(Front(factors)), Last(factors))

\* a marginalisation that leaves the variable in the scope of the new factor
MarginaliseFactorKeepsScope(self, factor, elimination_variable_name) ==
    IF ~InList(factor.scope, elimination_variable_name)
    THEN Raise("ValueError", "is not in the scope of the factor.")
    ELSE IF elimination_variable_name \notin Keys(self.nodes)
    THEN Raise("KeyError", elimination_variable_name)
    ELSE [kind  |-> "Factor",
          scope |-> factor.scope,
          pdf   |-> [tag |-> "marg",
                     factor |-> factor,
                     variable |-> elimination_variable_name,
                     domain |-> NodeNamed(self.nodes, elimination_variable_name).domain]]

\* BayesianNetwork._marginalise_factor
MarginaliseFactor(self, factor, elimination_variable_name) ==
    IF ~InList(factor.scope, elimination_variable_name)
    THEN Raise("ValueError", "is not in the scope of the factor.")
    ELSE IF elimination_variable_name \notin Keys(self.nodes)
    THEN Raise("KeyError", elimination_variable_name)
    ELSE LET Other(v) == v # elimination_variable_name
         IN  [kind  |-> "Factor",
              scope |-> SelectSeq(factor.scope, Other),
              pdf   |-> [tag |-> "marg",
                         factor |-> factor,
                         variable |-> elimination_variable_name,
                         domain |-> NodeNamed(self.nodes, elimination_variable_name).domain]]

\* joint_pdf with the density of a root taken to be 1
JointTermRootIsOne(node, variable_values, system_parameter_values) ==
    IF node.type = "ROOT"
    THEN Num(1, FALSE)
    ELSE ConditionalPdf(node, variable_values[node.variable_name],
             [name \in Range(node.parent_variable_names) |-> variable_values[name]],
             system_parameter_values)

\* joint_pdf, lines 584-599: the density of one node at the assignment
JointTerm(node, variable_values, system_parameter_values) ==
    IF node.type = "ROOT"
    THEN MarginalPdf(node, variable_values[node.variable_name], system_parameter_values)
    ELSE ConditionalPdf(node, variable_values[node.variable_name],
             [name \in Range(node.parent_variable_names) |-> variable_values[name]],
             system_parameter_values)

\* joint_pdf without the check of the values against the domains
JointPdfUnchecked(self, variable_values, system_parameter_values) ==
    IF ~(Keys(self.nodes) \subseteq DOMAIN variable_values)
    THEN Raise("TypeError", "Not all variables in the network are present in the variable values dictionary.")
    ELSE IF ~(self.system_parameter_names \subseteq DOMAIN system_parameter_values)
    THEN Raise("TypeError", "Not all system parameters in the network are present in the system parameters dictionary.")
    ELSE LET RECURSIVE Walk(_)
             Walk(i) ==
                 IF i = 0 THEN Num(1, FALSE)
                 ELSE LET before == Walk(i - 1)
                          term == JointTerm(self.nodes[i], variable_values,
                                            system_parameter_values)
                      IN  IF Raised(before) THEN before
                          ELSE IF Raised(term) THEN term
                          ELSE Num(before.v * term.v, before.np \/ term.np)
         IN  Walk(Len(self.nodes))

\* BayesianNetwork.joint_pdf; Walk(i) is joint_probability after the first i
\* nodes of self.nodes.values(), or the exception raised until then
JointPdf(self, variable_values, system_parameter_values) ==
    IF ~(Keys(self.nodes) \subseteq DOMAIN variable_values)
    THEN Raise("TypeError", "Not all variables in the network are present in the variable values dictionary.")
    ELSE IF ~(self.system_parameter_names \subseteq DOMAIN system_parameter_values)
    THEN Raise("TypeError", "Not all system parameters in the network are present in the system parameters dictionary.")
    ELSE LET RECURSIVE Walk(_)
             Walk(i) ==
                 IF i = 0 THEN Num(1, FALSE)
                 ELSE LET before == Walk(i - 1)
                          node == self.nodes[i]
                          variable_value == variable_values[node.variable_name]
                      IN  IF Raised(before) THEN before
                          ELSE IF \/ variable_value < node.domain[1]
                                  \/ variable_value > node.domain[2]
                          THEN Raise("ValueError", "is not within the domain of")
                          ELSE LET term == JointTerm(node, variable_values,
                                                     system_parameter_values)
                               IN  IF Raised(term) THEN term
                                   ELSE Num(before.v * term.v, before.np \/ term.np)
         IN  Walk(Len(self.nodes))

\* {query_variable_name: x, **evidence}
QueryPoint(query_variable_name, x, evidence) ==
    [k \in {query_variable_name} \cup DOMAIN evidence |->
        IF k \in DOMAIN evidence THEN evidence[k] ELSE x]

NaN == [kind |-> "nan"]

Inf == [kind |-> "inf"]

\* p / alpha for a density value p and the Python float alpha
Divide(p, alpha) ==
    IF alpha.v # 0 THEN Float(p.v, alpha.v)
    ELSE IF ~p.np THEN Raise("ZeroDivisionError", "float division by zero")
    ELSE IF p.v = 0 THEN NaN
    ELSE Inf

\* scipy.integrate.quad(integrand, lo, hi)[0] for an integrand whose values
\* on lo..hi (or hi..lo) are quotients by alpha
QuadQuotients(values, alpha, lo, hi) ==
    LET a == IF lo <= hi THEN lo ELSE hi
        b == IF lo <= hi THEN hi ELSE lo
        RECURSIVE Acc(_)
        Acc(t) == IF t > b THEN 0 ELSE values[t].num + Acc(t + 1)
    IN  IF \E t \in a..b : Raised(values[t])
        THEN values[CHOOSE t \in a..b :
                        Raised(values[t]) /\ \A u \in a..(t - 1) : ~Raised(values[u])]
        ELSE IF \E t \in a..b : values[t].kind = "nan" THEN NaN
        ELSE IF \E t \in a..b : values[t].kind = "inf" THEN Inf
        ELSE Float(IF lo <= hi THEN Acc(a) ELSE -Acc(a), alpha.v)

\* BayesianNetwork.infer, in steps.  An activation of infer is a record:
\*   pc        where it stands
\*   ordering  the elimination variables not yet eliminated, in the order
\*             list(set) gave them
\*   factors   the current factorisation
\*   phi       the final factor, once computed
\*   alpha     the normalisation constant, once computed
\*   ret       what infer returned or raised, once done
Activation(pc, ordering, factors, phi, alpha, ret) ==
    [pc |-> pc, ordering |-> ordering, factors |-> factors,
     phi |-> phi, alpha |-> alpha, ret |-> ret]

Idle == Activation("idle", <<>>, <<>>, None, None, None)

Done(ret) == Activation("done", <<>>, <<>>, None, None, ret)

\* the elimination variables of infer
InferEliminationSet(self, query_variable_name, evidence) ==
    (Keys(self.nodes) \ {query_variable_name}) \ DOMAIN evidence

\* infer without the check of the names of the query and of the evidence
InferStartUnchecked(self, query_variable_name, evidence, ordering) ==
    Activation("eliminate", ordering, GetJointFactorisation(self), None, None, None)

\* infer, lines 736-752: validation, the elimination ordering (`ordering`
\* is the order list(set) yields) and the factorisation
InferStart(self, query_variable_name, evidence, ordering) ==
    IF \E name \in {query_variable_name} \cup DOMAIN evidence :
           name \notin Keys(self.nodes)
    THEN Done(Raise("ValueError", "is not in the Bayesian network."))
    ELSE Activation("eliminate", ordering, GetJointFactorisation(self),
                    None, None, None)

\* infer, lines 757-782: one turn of the elimination loop
InferEliminate(self, a) ==
    LET elimination_variable_name == Head(a.ordering)
        Relevant(factor) == InList(factor.scope, elimination_variable_name)
        Irrelevant(factor) == ~InList(factor.scope, elimination_variable_name)
        relevant_factors == SelectSeq(a.factors, Relevant)
        irrelevant_factors == SelectSeq(a.factors, Irrelevant)
        psi == ComputeFactorProduct(relevant_factors)
        tau == MarginaliseFactor(self, psi, elimination_variable_name)
    IN  IF Raised(psi) THEN Done(psi)
        ELSE IF Raised(tau) THEN Done(tau)
        ELSE [a EXCEPT !.ordering = Tail(a.ordering),
                       !.factors = irrelevant_factors \o <<tau>>]

\* infer, line 786: the product of the remaining factors
InferProduct(self, a) ==
    LET phi == ComputeFactorProduct(a.factors)
    IN  IF Raised(phi) THEN Done(phi)
        ELSE [a EXCEPT !.pc = "normalise", !.phi = phi]

\* a normalisation over the domain of the first node of the network, where
\* infer integrates over the domain of the query variable
InferNormaliseFirstDomain(self, a, query_variable_name, evidence, system_parameter_values) ==
    LET query_variable_domain == self.nodes[1].domain
        lo == query_variable_domain[1]
        hi == query_variable_domain[2]
        integrand ==
            [x \in (lo..hi) \cup (hi..lo) |->
                Pdf(a.phi, QueryPoint(query_variable_name, x, evidence),
                    system_parameter_values)]
        alpha == QuadValues(integrand, lo, hi)
    IN  IF Raised(alpha) THEN Done(alpha)
        ELSE [a EXCEPT !.pc = "integrate", !.alpha = alpha]

\* infer, lines 792-799: the normalisation constant
InferNormalise(self, a, query_variable_name, evidence, system_parameter_values) ==
    LET query_variable_domain == NodeNamed(self.nodes, query_variable_name).domain
        lo == query_variable_domain[1]
        hi == query_variable_domain[2]
        integrand ==
            [x \in (lo..hi) \cup (hi..lo) |->
                Pdf(a.phi, QueryPoint(query_variable_name, x, evidence),
                    system_parameter_values)]
        alpha == QuadValues(integrand, lo, hi)
    IN  IF Raised(alpha) THEN Done(alpha)
        ELSE [a EXCEPT !.pc = "integrate", !.alpha = alpha]

\* infer, lines 803-812: the normalised density integrated over the range
InferIntegrate(self, a, query_variable_name, range, evidence, system_parameter_values) ==
    LET lo == range[1]
        hi == range[2]
        final_conditional_pdf ==
            [x \in (lo..hi) \cup (hi..lo) |->
                LET p == Pdf(a.phi, QueryPoint(query_variable_name, x, evidence),
                             system_parameter_values)
                IN  IF Raised(p) THEN p ELSE Divide(p, a.alpha)]
    IN  [a EXCEPT !.pc = "done",
                  !.ret = QuadQuotients(final_conditional_pdf, a.alpha, lo, hi)]

-----------------------------------------------------------------------------
(* cassandra.core.node and cassandra.core.network: discrete networks.      *)
(*                                                                         *)
(* A Node object is a record with an `id`, its identity: Node defines      *)
(* neither __eq__ nor __hash__, so `in`, set() and == compare identities.  *)

\* Node.__init__ of cassandra.core (the object created gets identity id)
CoreNode(id, variable_name, parent_nodes, cpd) ==
    LET expected_shape ==
            [i \in DOMAIN parent_nodes |-> Last(parent_nodes[i].cpd.shape)]
                \o <<Last(cpd.shape)>>
        rows == SumAxis(cpd, Len(cpd.shape))
    IN  IF Len(parent_nodes) > 0 /\ cpd.shape # expected_shape
        THEN Raise("ValueError", "The shape of the CPD is not the expected shape")
        ELSE IF Len(parent_nodes) = 0 /\ Len(cpd.shape) # 1
        THEN Raise("ValueError", "The dimension of the CPD should be 1 if there are no parent nodes")
        ELSE IF \E k \in DOMAIN rows.data : rows.data[k] # cpd.den
        THEN Raise("ValueError", "The CPD does not represent a valid probability distribution")
        ELSE [kind |-> "Node", id |-> id, variable_name |-> variable_name,
              parent_nodes |-> parent_nodes, cpd |-> cpd]

\* Node.get_cardinality
GetCardinality(self) == Last(self.cpd.shape)

\* Node.get_conditional_distribution(...)[variable_assignment], that is
\* Node.compute_conditional_probability
ComputeConditionalProbability(self, variable_assignment, parent_variable_assignments) ==
    LET parents == self.parent_nodes
    IN  IF variable_assignment < 0 \/ variable_assignment >= GetCardinality(self)
        THEN Raise("ValueError", "The variable assignment is invalid")
        ELSE IF DOMAIN parent_variable_assignments
                    # {parents[i].variable_name : i \in DOMAIN parents}
        THEN Raise("ValueError", "Not all parent nodes are provided")
        ELSE IF \E i \in DOMAIN parents :
                    LET provided_index == parent_variable_assignments[parents[i].variable_name]
                    IN  provided_index < 0 \/ provided_index >= GetCardinality(parents[i])
        THEN Raise("ValueError", "The state of parent node is invalid")
        ELSE LET indices == [i \in DOMAIN parents |->
                                parent_variable_assignments[parents[i].variable_name]]
             IN  Float(At(self.cpd, Append(indices, variable_assignment)), self.cpd.den)

\* Node.to_factor: the tabular factor of a node, over its parents followed
\* by its own variable, with the CPT as values
ToFactor(self) ==
    Factor([i \in DOMAIN self.parent_nodes |-> self.parent_nodes[i].variable_name]
               \o <<self.variable_name>>,
           self.cpd)

\* Network.__init__
Network(nodes) ==
    IF Cardinality(Range(nodes)) # Len(nodes)
    THEN Raise("ValueError", "The nodes must be unique")
    ELSE IF \E i \in DOMAIN nodes :
                \E k \in DOMAIN nodes[i].parent_nodes :
                    ~InList(nodes, nodes[i].parent_nodes[k])
    THEN Raise("ValueError", "The network is not closed")
    ELSE [kind |-> "Network", nodes |-> NodesDict(nodes)]

\* Network.get_variable_names
GetVariableNames(self) == Keys(self.nodes)

\* Network.get_factors: a set of Factor objects, held as the sequence of
\* its members in the order they were created; the order in which Python
\* iterates the set is chosen where the set is iterated
GetFactors(self) == [i \in DOMAIN self.nodes |-> ToFactor(self.nodes[i])]

\* Network.evaluate_joint_probability
EvaluateJointProbability(self, e) ==
    IF DOMAIN e # GetVariableNames(self)
    THEN Raise("ValueError", "The evidence variables must be complete")
    ELSE IF \E name \in DOMAIN e :
                e[name] < 0 \/ e[name] >= GetCardinality(NodeNamed(self.nodes, name))
    THEN Raise("ValueError", "The evidence observations are invalid")
    ELSE LET Local(node) ==
                 ComputeConditionalProbability(
                     node, e[node.variable_name],
                     [name \in {node.parent_nodes[k].variable_name :
                                    k \in DOMAIN node.parent_nodes} |-> e[name]])
             RECURSIVE Prob(_)
             Prob(i) ==
                 IF i = 0 THEN Float(1, 1)
                 ELSE LET before == Prob(i - 1)
                          conditional_probability == Local(self.nodes[i])
                      IN  IF Raised(before) THEN before
                          ELSE IF Raised(conditional_probability)
                          THEN conditional_probability
                          ELSE Float(before.num * conditional_probability.num,
                                     before.den * conditional_probability.den)
         IN  Prob(Len(self.nodes))

-----------------------------------------------------------------------------
(* cassandra.core.algorithms and Network.query: variable elimination *)

\* reduce(lambda x, y: x.multiply(y), factors)
RECURSIVE ReduceMultiply(_)
ReduceMultiply(factors) ==
    IF Len(factors) = 0
    THEN Raise("TypeError", "reduce() of empty iterable with no initial value")
    ELSE IF Len(factors) = 1 THEN factors[1]
    ELSE LET x == ReduceMultiply(Front(factors))
         IN  IF Raised(x) THEN x ELSE Multiply(x, Last(factors))

\* the members of a set of factors in the order Python iterates it: `order`
\* is a permutation of the positions of the members
Iterate(factors, order) == [i \in DOMAIN factors |-> factors[order[i]]]

\* a Python set of objects: its members, in the order they were created
SetOf(members) == [kind |-> "set", members |-> members]

\* sum_product_eliminate; list(factors) yields the set in the order `order`
SumProductEliminate(factors, variable_name, order) ==
    LET Relevant(factor) == InList(factor.scope, variable_name)
        Irrelevant(factor) == ~InList(factor.scope, variable_name)
        relevant_factors == SelectSeq(Iterate(factors, order), Relevant)
        irrelevant_factors == SelectSeq(factors, Irrelevant)
        phi == ReduceMultiply(relevant_factors)
        tau == SumOut(phi, variable_name)
    IN  IF \A i \in DOMAIN factors : Irrelevant(factors[i])
        THEN Raise("ValueError", "The variable is not in any of the factors")
        ELSE IF Raised(phi) THEN phi
        ELSE IF Raised(tau) THEN tau
        ELSE SetOf(irrelevant_factors \o <<tau>>)

\* Factor.reorder: the same factor with its axes in the order desired_ordering
Reorder(self, desired_ordering) ==
    LET shape == [i \in DOMAIN desired_ordering |->
                     self.values.shape[IndexOf(self.scope, desired_ordering[i])]]
        Source(idx) == [j \in DOMAIN self.scope |->
                           idx[IndexOf(desired_ordering, self.scope[j])]]
    IN  Factor(desired_ordering,
               Array(shape,
                     [k \in 1..SeqProd(shape) |->
                         At(self.values, Source(Unravel(k - 1, shape)))],
                     self.values.den))

\* Factor.normalise(n_dimensions) followed by values[indices]: the element
\* at indices divided by the sum over the last n_dimensions axes, a sum of
\* zero being replaced by one
NormalisedAt(self, n_dimensions, indices) ==
    LET kept == Len(indices) - n_dimensions
        SameRow(k) == \A i \in 1..kept :
                          Unravel(k - 1, self.values.shape)[i] = indices[i]
        RECURSIVE RowSum(_)
        RowSum(k) == IF k = 0 THEN 0
                     ELSE (IF SameRow(k) THEN self.values.data[k] ELSE 0) + RowSum(k - 1)
        total == RowSum(Len(self.values.data))
    IN  IF total = 0 THEN Float(At(self.values, indices), self.values.den)
        ELSE Float(At(self.values, indices), total)

\* an elimination set that takes the evidence variables too, where query
\* keeps them
QueryEliminationSetNoEvidence(self, Y, e) ==
    GetVariableNames(self) \ DOMAIN Y

\* the elimination variables of query
QueryEliminationSet(self, Y, e) ==
    GetVariableNames(self) \ (DOMAIN Y \cup DOMAIN e)

\* Network.query, lines 190-220: validation, the elimination ordering
\* (`ordering` is the order list(set) yields) and the factors
QueryStart(self, Y, e, ordering) ==
    IF DOMAIN Y = {}
    THEN Done(Raise("ValueError", "There must be at least one query variable"))
    ELSE IF DOMAIN Y \cap DOMAIN e # {}
    THEN Done(Raise("ValueError", "The query and evidence variables must be disjoint"))
    ELSE IF ~((DOMAIN Y \cup DOMAIN e) \subseteq GetVariableNames(self))
    THEN Done(Raise("ValueError",
                    "The query and evidence variables must be a subset of the network"))
    ELSE Activation("eliminate", ordering, GetFactors(self), None, None, None)

\* query, lines 221-222: one turn of the elimination loop
QueryEliminate(a, order) ==
    LET factors == SumProductEliminate(a.factors, Head(a.ordering), order)
    IN  IF Raised(factors) THEN Done(factors)
        ELSE [a EXCEPT !.ordering = Tail(a.ordering), !.factors = factors.members]

\* query, lines 225-229: the product of the remaining factors, iterated in
\* the order `order`, and the check of its scope
QueryProduct(a, Y, e, order) ==
    LET reduced_factor == ReduceMultiply(Iterate(a.factors, order))
    IN  IF Raised(reduced_factor) THEN Done(reduced_factor)
        ELSE IF Range(reduced_factor.scope) # DOMAIN Y \cup DOMAIN e
        THEN Done(Raise("AssertionError", ""))
        ELSE [a EXCEPT !.pc = "finish", !.phi = reduced_factor]

\* query, lines 232-241: the factor reordered to evidence then query
\* variables, normalised over the query variables and read at Y and e
QueryFinish(a, Y, e) ==
    LET desired_ordering == SortedSet(DOMAIN e) \o SortedSet(DOMAIN Y)
        reduced_factor == Reorder(a.phi, desired_ordering)
        combined_dictionary == [var \in DOMAIN e \cup DOMAIN Y |->
                                   IF var \in DOMAIN Y THEN Y[var] ELSE e[var]]
        indices == [i \in DOMAIN reduced_factor.scope |->
                       combined_dictionary[reduced_factor.scope[i]]]
    IN  [a EXCEPT !.pc = "done",
                  !.ret = NormalisedAt(reduced_factor, Cardinality(DOMAIN Y), indices)]

-----------------------------------------------------------------------------
(* The tabular factors the factor operations are applied to *)

\* the longest scope of an operand
MaxScope == 3

FactorVars == {"A", "B", "C"}

\* the cardinalities of the variables: all binary as in the tests' fixtures,
\* or with a ternary B
CardChoices ==
    { [v \in FactorVars |-> 2],
      [v \in FactorVars |-> IF v = "B" THEN 3 ELSE 2] }

\* the elements of an operand, in C order: 1, 2, 3, ... (the tests'
\* simple_factor and complex_factor, in tenths), 3, 6, 2, 5, ... or all 0
DataPattern(p, n) ==
    [k \in 1..n |-> CASE p = 1 -> k
                      [] p = 2 -> (3 * k) % 7
                      [] OTHER -> 0]

TabFactor(card, scope, p) ==
    LET shape == [i \in DOMAIN scope |-> card[scope[i]]]
    IN  Factor(scope, Array(shape, DataPattern(p, SeqProd(shape)), 10))

TabFactors(card, patterns) ==
    {TabFactor(card, scope, p) : scope \in DistinctSeqs(FactorVars, MaxScope),
                                 p \in patterns}

\* the cardinality of each variable of a factor, as a function on its scope
CardOf(fac) ==
    [v \in Range(fac.scope) |-> fac.values.shape[IndexOf(fac.scope, v)]]

\* the valid assignments to the variables of a factor
Assignments(fac) ==
    {a \in [Range(fac.scope) -> 0..2] : \A v \in DOMAIN a : a[v] < CardOf(fac)[v]}

\* a restricted to the variables of fac
Restrict(a, fac) == [v \in Range(fac.scope) |-> a[v]]

NoOp == [name |-> "none", var |-> ""]

-----------------------------------------------------------------------------
(* The factor operations, each applied once to operands drawn in Init *)

InitFactor ==
    /\ mode = "factor"
    /\ \E card \in CardChoices :
           /\ f \in TabFactors(card, {1, 3})
           /\ g \in TabFactors(card, {2})
           /\ h \in TabFactors(card, {1})
    /\ op = NoOp
    /\ res = None
    /\ net = None /\ call = None /\ act = Idle

\* f.multiply(g)
DoMultiply ==
    /\ mode = "factor" /\ op.name = "none"
    /\ res' = Multiply(f, g)
    /\ op' = [name |-> "multiply", var |-> ""]
    /\ UNCHANGED <<mode, f, g, h, queryVars>>

\* f.multiply(g).multiply(h)
DoMultiplyThree ==
    /\ mode = "factor" /\ op.name = "none"
    /\ res' = (LET fg == Multiply(f, g)
               IN  IF Raised(fg) THEN fg ELSE Multiply(fg, h))
    /\ op' = [name |-> "multiply3", var |-> ""]
    /\ UNCHANGED <<mode, f, g, h, queryVars>>

\* f.sum_out(v)
DoSumOut ==
    /\ mode = "factor" /\ op.name = "none"
    /\ \E v \in FactorVars :
           /\ res' = SumOut(f, v)
           /\ op' = [name |-> "sum_out", var |-> v]
    /\ UNCHANGED <<mode, f, g, h, queryVars>>

\* f.evaluate(assignments)
DoEvaluate ==
    /\ mode = "factor" /\ op.name = "none"
    /\ \E names \in SUBSET FactorVars : \E assignments \in [names -> {0, 2}] :
           res' = Evaluate(f, assignments)
    /\ op' = [name |-> "evaluate", var |-> ""]
    /\ UNCHANGED <<mode, f, g, h, queryVars>>

\* f.normalise(): the factor object f has new values after the call
DoNormalise ==
    /\ mode = "factor" /\ op.name = "none"
    /\ res' = Normalise(f).ret
    /\ f' = Normalise(f).self
    /\ op' = [name |-> "normalise", var |-> ""]
    /\ UNCHANGED <<mode, g, h, queryVars>>

-----------------------------------------------------------------------------
(* The continuous networks infer is run on *)

\* the most evidence variables of a query
MaxEvidence == 2

\* a root with a normal density (experiments/scaling.py, nodeA)
RootNorm(name, lo, hi, loc) ==
    Node(name, <<lo, hi>>, <<>>, <<>>, None, Callable("norm_pdf"), RootParameters(loc, 1))

\* a root with the density 1 (the uniform root of the spec's scenario 1)
RootOne(name, lo, hi) ==
    Node(name, <<lo, hi>>, <<>>, <<>>, None, Callable("one"), RootParameters(0, 1))

\* a child whose equation returns its first parent
ChildFirst(name, lo, hi, parents) ==
    Node(name, <<lo, hi>>, parents, <<>>, Callable("first"), None, None)

\* a child whose equation is state * (the sum of its parents)
ChildSum(name, lo, hi, parents) ==
    Node(name, <<lo, hi>>, parents, <<"state">>, Callable("scaled_sum"), None, None)

ContinuousNodeLists ==
    { <<RootNorm("A", 0, 2, 1)>>,
      <<RootOne("A", 0, 1), ChildFirst("B", -1, 2, <<"A">>)>>,
      <<RootNorm("A", 0, 1, 0), RootNorm("B", 0, 1, 1), ChildSum("C", 0, 2, <<"A", "B">>)>>,
      <<RootNorm("A", 0, 1, 0), ChildSum("B", 0, 2, <<"A">>), ChildSum("C", 0, 2, <<"B">>)>>,
      <<RootOne("A", 0, 1), RootNorm("B", 1, 2, 1)>> }

\* the orders list(S) may give for a set S
Orderings(S) == {s \in [1..Cardinality(S) -> S] : Range(s) = S}

\* the dicts with at most n keys from K and values from V
Dicts(K, V, n) ==
    UNION {[D -> V] : D \in {D \in SUBSET K : Cardinality(D) <= n}}

\* the arguments of infer: an existing or unknown query variable, a range
\* inside, equal to, beyond or against the direction of a domain, evidence
\* inside and outside the domains (and possibly on the query variable), and
\* the system parameters
InferCalls(self) ==
    [query_variable_name : Keys(self.nodes) \cup {"Z"},
     range : {<<0, 1>>, <<1, 1>>, <<-1, 3>>, <<1, 0>>}
                 \cup {self.nodes[i].domain : i \in DOMAIN self.nodes},
     evidence : Dicts(Keys(self.nodes) \cup {"Z"}, {0, 1, 5}, MaxEvidence),
     system_parameter_values : {[k \in {"state"} |-> 1]}]

InitInfer ==
    /\ mode = "infer"
    /\ \E nodes \in ContinuousNodeLists : net = BayesianNetwork(nodes)
    /\ call \in InferCalls(net)
    /\ act = Activation("start", <<>>, <<>>, None, None, None)
    /\ f = None /\ g = None /\ h = None /\ op = NoOp /\ res = None

StepInferStart ==
    /\ mode = "infer" /\ act.pc = "start"
    /\ \E ordering \in Orderings(InferEliminationSet(net, call.query_variable_name,
                                                     call.evidence)) :
           act' = InferStart(net, call.query_variable_name, call.evidence, ordering)
    /\ UNCHANGED <<mode, factorVars, net, call>>

StepInferEliminate ==
    /\ mode = "infer" /\ act.pc = "eliminate" /\ act.ordering # <<>>
    /\ act' = InferEliminate(net, act)
    /\ UNCHANGED <<mode, factorVars, net, call>>

StepInferProduct ==
    /\ mode = "infer" /\ act.pc = "eliminate" /\ act.ordering = <<>>
    /\ act' = InferProduct(net, act)
    /\ UNCHANGED <<mode, factorVars, net, call>>

StepInferNormalise ==
    /\ mode = "infer" /\ act.pc = "normalise"
    /\ act' = InferNormalise(net, act, call.query_variable_name, call.evidence,
                             call.system_parameter_values)
    /\ UNCHANGED <<mode, factorVars, net, call>>

StepInferIntegrate ==
    /\ mode = "infer" /\ act.pc = "integrate"
    /\ act' = InferIntegrate(net, act, call.query_variable_name, call.range,
                             call.evidence, call.system_parameter_values)
    /\ UNCHANGED <<mode, factorVars, net, call>>

NextInfer ==
    \/ StepInferStart
    \/ StepInferEliminate
    \/ StepInferProduct
    \/ StepInferNormalise
    \/ StepInferIntegrate

SpecInfer == InitInfer /\ [][NextInfer]_vars

-----------------------------------------------------------------------------
(* The functional factors the factor operations are applied to: the        *)
(* factors of the nodes of a continuous network and their products         *)

NodeFactors(self) == {NodeFactor(self.nodes[i]) : i \in DOMAIN self.nodes}

FunctionalFactors(self) ==
    NodeFactors(self) \cup {Mul(x, y) : x \in NodeFactors(self), y \in NodeFactors(self)}

\* the largest value a functional factor is evaluated at
GridMax == 2

\* the assignments of grid values, from -1 on, to the variables of a scope
Points(scope) == [Range(scope) -> (-1)..GridMax]

\* the system parameters the factors are evaluated under
Theta == [k \in {"state"} |-> 1]

InitFunctional ==
    /\ mode = "functional"
    /\ \E nodes \in ContinuousNodeLists : net = BayesianNetwork(nodes)
    /\ f \in FunctionalFactors(net)
    /\ g \in NodeFactors(net)
    /\ h \in NodeFactors(net)
    /\ op = NoOp
    /\ res = None
    /\ call = None /\ act = Idle

\* f * g
DoMul ==
    /\ mode = "functional" /\ op.name = "none"
    /\ res' = Mul(f, g)
    /\ op' = [name |-> "mul", var |-> ""]
    /\ UNCHANGED <<mode, f, g, h, queryVars>>

\* (f * g) * h
DoMulThree ==
    /\ mode = "functional" /\ op.name = "none"
    /\ res' = Mul(Mul(f, g), h)
    /\ op' = [name |-> "mul3", var |-> ""]
    /\ UNCHANGED <<mode, f, g, h, queryVars>>

\* net._marginalise_factor(f, v)
DoMarginalise ==
    /\ mode = "functional" /\ op.name = "none"
    /\ \E v \in Keys(net.nodes) \cup {"Z"} :
           /\ res' = MarginaliseFactor(net, f, v)
           /\ op' = [name |-> "marginalise", var |-> v]
    /\ UNCHANGED <<mode, f, g, h, queryVars>>

\* f.pdf(variable_values, Theta); `call` keeps the arguments
DoPdf ==
    /\ mode = "functional" /\ op.name = "none"
    /\ \E variable_values \in Points(f.scope) :
           /\ res' = Pdf(f, variable_values, Theta)
           /\ call' = variable_values
    /\ op' = [name |-> "pdf", var |-> ""]
    /\ UNCHANGED <<mode, f, g, h, net, act>>

\* an operation of either representation on operands of that representation
InitFactors == InitFactor \/ InitFunctional

NextFactor ==
    \/ DoMultiply
    \/ DoMultiplyThree
    \/ DoSumOut
    \/ DoEvaluate
    \/ DoNormalise
    \/ DoMul
    \/ DoMulThree
    \/ DoMarginalise
    \/ DoPdf

SpecFactor == InitFactors /\ [][NextFactor]_vars

-----------------------------------------------------------------------------
(* The discrete networks Network.query is called on *)

\* the most query variables of a call of query
MaxQuery == 2

\* the nodes of the tests' fixtures simple_nodes (A, B, C) and
\* sequential_network (A, B, SeqC, SeqD), in tenths
NodeA == CoreNode(1, "A", <<>>, Array(<<2>>, <<6, 4>>, 10))

NodeB == CoreNode(2, "B", <<NodeA>>, Array(<<2, 2>>, <<7, 3, 2, 8>>, 10))

NodeC == CoreNode(3, "C", <<NodeA, NodeB>>, Array(<<2, 2, 2>>, <<9, 1, 5, 5, 3, 7, 1, 9>>, 10))

SeqC == CoreNode(4, "C", <<NodeB>>, Array(<<2, 2>>, <<5, 5, 4, 6>>, 10))

SeqD == CoreNode(5, "D", <<SeqC>>, Array(<<2, 2>>, <<1, 9, 8, 2>>, 10))

\* a second root, with three states, and a child of the roots A and RootB
RootB == CoreNode(6, "B", <<>>, Array(<<3>>, <<2, 3, 5>>, 10))

Collider == CoreNode(7, "C", <<NodeA, RootB>>, Array(<<2, 3, 2>>, <<9, 1, 5, 5, 3, 7, 1, 9, 6, 4, 2, 8>>, 10))

DiscreteNodeLists ==
    { <<NodeA, NodeB, NodeC>>,
      <<NodeA, NodeB, SeqC, SeqD>>,
      <<NodeA, RootB, Collider>>,
      <<NodeA, RootB>> }

\* the arguments of query: at most MaxQuery query variables and MaxEvidence
\* evidence variables, existing or unknown, possibly overlapping, each with
\* a state every variable has; the keys of each dict are inserted in
\* alphabetical order
QueryCalls(self) ==
    [Y : Dicts(GetVariableNames(self) \cup {"Z"}, {0, 1}, MaxQuery),
     e : Dicts(GetVariableNames(self) \cup {"Z"}, {0, 1}, MaxEvidence)]

InitQuery ==
    /\ mode = "query"
    /\ \E nodes \in DiscreteNodeLists : net = Network(nodes)
    /\ call \in QueryCalls(net)
    /\ act = Activation("start", <<>>, <<>>, None, None, None)
    /\ f = None /\ g = None /\ h = None /\ op = NoOp /\ res = None

StepQueryStart ==
    /\ mode = "query" /\ act.pc = "start"
    /\ \E ordering \in Orderings(QueryEliminationSet(net, call.Y, call.e)) :
           act' = QueryStart(net, call.Y, call.e, ordering)
    /\ UNCHANGED <<mode, factorVars, net, call>>

StepQueryEliminate ==
    /\ mode = "query" /\ act.pc = "eliminate" /\ act.ordering # <<>>
    /\ \E order \in IterOrders(Len(act.factors)) :
           act' = QueryEliminate(act, order)
    /\ UNCHANGED <<mode, factorVars, net, call>>

StepQueryProduct ==
    /\ mode = "query" /\ act.pc = "eliminate" /\ act.ordering = <<>>
    /\ \E order \in IterOrders(Len(act.factors)) :
           act' = QueryProduct(act, call.Y, call.e, order)
    /\ UNCHANGED <<mode, factorVars, net, call>>

StepQueryFinish ==
    /\ mode = "query" /\ act.pc = "finish"
    /\ act' = QueryFinish(act, call.Y, call.e)
    /\ UNCHANGED <<mode, factorVars, net, call>>

NextQuery ==
    \/ StepQueryStart
    \/ StepQueryEliminate
    \/ StepQueryProduct
    \/ StepQueryFinish

SpecQuery == InitQuery /\ [][NextQuery]_vars

-----------------------------------------------------------------------------
(* Construction of a network of either engine from a list of nodes *)

\* the longest list of nodes a network is constructed from
MaxNodes == 3

\* continuous nodes: roots, children of known parents, a child of an unknown
\* parent, a node that is its own parent and nodes that are each other's
ContinuousNodePool ==
    { RootOne("A", 0, 1),
      RootNorm("B", 0, 1, 1),
      RootOne("C", 0, 1),
      ChildFirst("B", 0, 1, <<"A">>),
      ChildFirst("C", 0, 1, <<"A", "B">>),
      ChildFirst("C", 0, 1, <<"Z">>),
      ChildFirst("A", 0, 1, <<"A">>),
      ChildFirst("A", 0, 1, <<"B">>) }

\* a second Node object with the name and the CPD of NodeA
OtherA == CoreNode(8, "A", <<>>, Array(<<2>>, <<6, 4>>, 10))

DiscreteNodePool == {NodeA, NodeB, NodeC, SeqC, SeqD, RootB, Collider, OtherA}

\* the lists of at most n members of S
Lists(S, n) == UNION {[1..k -> S] : k \in 0..n}

InitConstruct ==
    /\ mode = "construct"
    /\ \/ call \in [engine : {"continuous"}, nodes : Lists(ContinuousNodePool, MaxNodes)]
       \/ call \in [engine : {"discrete"}, nodes : Lists(DiscreteNodePool, MaxNodes)]
    /\ net = None
    /\ act = Idle
    /\ f = None /\ g = None /\ h = None /\ op = NoOp /\ res = None

\* BayesianNetwork(nodes)
ConstructBayesianNetwork ==
    /\ mode = "construct" /\ call.engine = "continuous" /\ act.pc = "idle"
    /\ net' = BayesianNetwork(call.nodes)
    /\ act' = Done(None)
    /\ UNCHANGED <<mode, factorVars, call>>

\* Network(nodes)
ConstructNetwork ==
    /\ mode = "construct" /\ call.engine = "discrete" /\ act.pc = "idle"
    /\ net' = Network(call.nodes)
    /\ act' = Done(None)
    /\ UNCHANGED <<mode, factorVars, call>>

NextConstruct == ConstructBayesianNetwork \/ ConstructNetwork

SpecConstruct == InitConstruct /\ [][NextConstruct]_vars

-----------------------------------------------------------------------------
(* Two calls on one network, their steps interleaved.  In this mode `call`  *)
(* is the pair of the arguments of the two calls and `act` the pair of      *)
(* their activations; the network is the one object both calls share.      *)

\* the activations infer may be in after one step from the activation a
InferSuccessors(self, c, a) ==
    CASE a.pc = "start" ->
            {InferStart(self, c.query_variable_name, c.evidence, ordering) :
                ordering \in Orderings(InferEliminationSet(self, c.query_variable_name,
                                                           c.evidence))}
      [] a.pc = "eliminate" /\ a.ordering # <<>> -> {InferEliminate(self, a)}
      [] a.pc = "eliminate" /\ a.ordering = <<>> -> {InferProduct(self, a)}
      [] a.pc = "normalise" ->
            {InferNormalise(self, a, c.query_variable_name, c.evidence,
                            c.system_parameter_values)}
      [] a.pc = "integrate" ->
            {InferIntegrate(self, a, c.query_variable_name, c.range, c.evidence,
                            c.system_parameter_values)}
      [] OTHER -> {}

\* the activations query may be in after one step from the activation a
QuerySuccessors(self, c, a) ==
    CASE a.pc = "start" ->
            {QueryStart(self, c.Y, c.e, ordering) :
                ordering \in Orderings(QueryEliminationSet(self, c.Y, c.e))}
      [] a.pc = "eliminate" /\ a.ordering # <<>> ->
            {QueryEliminate(a, order) : order \in IterOrders(Len(a.factors))}
      [] a.pc = "eliminate" /\ a.ordering = <<>> ->
            {QueryProduct(a, c.Y, c.e, order) : order \in IterOrders(Len(a.factors))}
      [] a.pc = "finish" -> {QueryFinish(a, c.Y, c.e)}
      [] OTHER -> {}

\* local variables kept in one place for all running calls, as attributes
\* of the shared network would be
LocalsShared(acts, i) == acts[1]

\* the local variables of the i-th of the running calls: each call has its
\* own (factors, phi, alpha are locals of infer and of query)
Locals(acts, i) == acts[i]

\* the calls of infer that are run in pairs: any query variable, two
\* ranges, no evidence or evidence on the first node
PairedInferCalls(self) ==
    [query_variable_name : Keys(self.nodes),
     range : {<<0, 1>>, <<-1, 3>>},
     evidence : Dicts({self.nodes[1].variable_name}, {1}, 1),
     system_parameter_values : {Theta}]

\* the calls of query that are run in pairs: any query variable and state,
\* no evidence or evidence on the first node
PairedQueryCalls(self) ==
    [Y : Dicts(GetVariableNames(self), {0, 1}, 1) \ {EmptyDict},
     e : Dicts({self.nodes[1].variable_name}, {0}, 1)]

StartActivation == Activation("start", <<>>, <<>>, None, None, None)

InitConcurrent ==
    /\ mode = "concurrent"
    /\ \/ /\ net \in { BayesianNetwork(<<RootOne("A", 0, 1), ChildFirst("B", -1, 2, <<"A">>)>>),
                      BayesianNetwork(<<RootNorm("A", 0, 1, 0), ChildSum("B", 0, 2, <<"A">>)>>) }
          /\ call \in PairedInferCalls(net) \X PairedInferCalls(net)
       \/ /\ net \in { Network(<<NodeA, NodeB, NodeC>>), Network(<<NodeA, RootB, Collider>>) }
          /\ call \in PairedQueryCalls(net) \X PairedQueryCalls(net)
    /\ act = <<StartActivation, StartActivation>>
    /\ f = None /\ g = None /\ h = None /\ op = NoOp /\ res = None

\* one step of one of two running calls of infer
ConcurrentInferStep ==
    /\ mode = "concurrent" /\ net.kind = "BayesianNetwork"
    /\ \E i \in 1..2 :
           \E a \in InferSuccessors(net, call[i], Locals(act, i)) :
               act' = [act EXCEPT ![i] = a]
    /\ UNCHANGED <<mode, factorVars, net, call>>

\* one step of one of two running calls of query
ConcurrentQueryStep ==
    /\ mode = "concurrent" /\ net.kind = "Network"
    /\ \E i \in 1..2 :
           \E a \in QuerySuccessors(net, call[i], Locals(act, i)) :
               act' = [act EXCEPT ![i] = a]
    /\ UNCHANGED <<mode, factorVars, net, call>>

NextConcurrent == ConcurrentInferStep \/ ConcurrentQueryStep

SpecConcurrent == InitConcurrent /\ [][NextConcurrent]_vars

-----------------------------------------------------------------------------
(* The joint density and the joint probability of a full assignment *)

\* the arguments of joint_pdf: values on the grid for any of the variables
\* and for an unknown one, and system parameters given or not
JointPdfCalls(self) ==
    [variable_values : UNION {[D -> (-1)..GridMax] : D \in SUBSET (Keys(self.nodes) \cup {"Z"})},
     system_parameter_values : {EmptyDict, Theta, [k \in {"state"} |-> 2]}]

\* the arguments of evaluate_joint_probability
JointProbabilityCalls(self) ==
    [e : UNION {[D -> (-1)..2] : D \in SUBSET (GetVariableNames(self) \cup {"Z"})}]

InitJoint ==
    /\ mode = "joint"
    /\ \/ /\ \E nodes \in ContinuousNodeLists : net = BayesianNetwork(nodes)
          /\ call \in JointPdfCalls(net)
       \/ /\ \E nodes \in DiscreteNodeLists : net = Network(nodes)
          /\ call \in JointProbabilityCalls(net)
    /\ f = None /\ g = None /\ h = None /\ op = NoOp /\ res = None
    /\ act = Idle

\* net.joint_pdf(variable_values, system_parameter_values)
DoJointPdf ==
    /\ mode = "joint" /\ op.name = "none" /\ net.kind = "BayesianNetwork"
    /\ res' = JointPdf(net, call.variable_values, call.system_parameter_values)
    /\ op' = [name |-> "joint_pdf", var |-> ""]
    /\ UNCHANGED <<mode, f, g, h, queryVars>>

\* net.evaluate_joint_probability(e)
DoEvaluateJointProbability ==
    /\ mode = "joint" /\ op.name = "none" /\ net.kind = "Network"
    /\ res' = EvaluateJointProbability(net, call.e)
    /\ op' = [name |-> "evaluate_joint_probability", var |-> ""]
    /\ UNCHANGED <<mode, f, g, h, queryVars>>

NextJoint == DoJointPdf \/ DoEvaluateJointProbability

SpecJoint == InitJoint /\ [][NextJoint]_vars

-----------------------------------------------------------------------------
(* sum_product_eliminate applied once to the set {f, g, h} of tabular      *)
(* factors drawn in Init                                                   *)

InitAlgorithm ==
    /\ mode = "algorithm"
    /\ \E card \in CardChoices :
           /\ f \in TabFactors(card, {1})
           /\ g \in TabFactors(card, {2})
           /\ h \in TabFactors(card, {1})
    /\ op = NoOp
    /\ res = None
    /\ net = None /\ call = None /\ act = Idle

\* sum_product_eliminate({f, g, h}, v), list(factors) yielding the set in
\* any order
DoSumProductEliminate ==
    /\ mode = "algorithm" /\ op.name = "none"
    /\ \E v \in FactorVars : \E order \in IterOrders(3) :
           /\ res' = SumProductEliminate(<<f, g, h>>, v, order)
           /\ op' = [name |-> "sum_product_eliminate", var |-> v]
    /\ UNCHANGED <<mode, f, g, h, queryVars>>

NextAlgorithm == DoSumProductEliminate

SpecAlgorithm == InitAlgorithm /\ [][NextAlgorithm]_vars

-----------------------------------------------------------------------------
(* Factor.pdf called with any keys: on the factor of a node, on a product  *)
(* and on a marginalised factor                                            *)

MarginalisedFactors(self) ==
    {MarginaliseFactor(self, x, v) : x \in FunctionalFactors(self), v \in Keys(self.nodes)}

\* the factors pdf is called on
PdfFactors(self) ==
    FunctionalFactors(self) \cup {x \in MarginalisedFactors(self) : ~Raised(x)}

\* the dicts of grid values for any of the variables of the network and
\* for a name that is no variable
PdfCalls(self) ==
    UNION {[D -> 0..GridMax] : D \in SUBSET (Keys(self.nodes) \cup {"Z"})}

InitPdf ==
    /\ mode = "pdf"
    /\ \E nodes \in ContinuousNodeLists : net = BayesianNetwork(nodes)
    /\ f \in PdfFactors(net)
    /\ call \in PdfCalls(net)
    /\ g = None /\ h = None /\ op = NoOp /\ res = None /\ act = Idle

\* f.pdf(call, Theta)
DoPdfCall ==
    /\ mode = "pdf" /\ op.name = "none"
    /\ res' = Pdf(f, call, Theta)
    /\ op' = [name |-> "pdf", var |-> ""]
    /\ UNCHANGED <<mode, f, g, h, queryVars>>

NextPdf == DoPdfCall

SpecPdf == InitPdf /\ [][NextPdf]_vars

-----------------------------------------------------------------------------
(* Factor.evaluate called with any keys and values *)

\* the arguments of evaluate: values for any of the variables, below, in
\* and beyond the cardinalities, at most one of them not an integer
EvaluateCalls ==
    [assignments : UNION {[D -> (-1)..MaxScope] : D \in SUBSET FactorVars},
     non_integers : {{}} \cup {{v} : v \in FactorVars}]

InitEvaluate ==
    /\ mode = "evaluate"
    /\ \E card \in CardChoices : f \in TabFactors(card, {1, 2})
    /\ call \in {c \in EvaluateCalls : c.non_integers \subseteq DOMAIN c.assignments}
    /\ g = None /\ h = None /\ op = NoOp /\ res = None
    /\ net = None /\ act = Idle

\* f.evaluate(assignments)
DoEvaluateCall ==
    /\ mode = "evaluate" /\ op.name = "none"
    /\ res' = EvaluateTyped(f, call.assignments, call.non_integers)
    /\ op' = [name |-> "evaluate", var |-> ""]
    /\ UNCHANGED <<mode, f, g, h, queryVars>>

NextEvaluate == DoEvaluateCall

SpecEvaluate == InitEvaluate /\ [][NextEvaluate]_vars

-----------------------------------------------------------------------------
(* The construction of one node, continuous or discrete *)

\* the arguments of the continuous Node: no, one or two parents, and each
\* of the equation, the marginal density and the distribution parameters
\* given or not
NodeCalls ==
    [engine : {"continuous"},
     variable_name : {"C"},
     domain : {<<0, 1>>, <<1, 0>>},
     parent_variable_names : {<<>>, <<"A">>, <<"A", "B">>},
     system_parameter_names : {<<>>, <<"state">>},
     equation : {None, Callable("first"), Callable("scaled_sum")},
     marginal_pdf : {None, Callable("one"), Callable("norm_pdf")},
     distribution_parameters : {None, RootParameters(0, 1), ChildParameters(0, 1, 1)}]

\* a CPD of the given shape, in tenths, each row of which is
\*   p = 1: a distribution,
\*   p = 2: a distribution, but the last row, which sums to 1.1,
\*   p = 3: 1.5 and -0.5 (and zeros), which sum to 1
Cpd(shape, p) ==
    LET n == Last(shape)
        size == SeqProd(shape)
        Col(k) == ((k - 1) % n) + 1
        Good(c) == IF n = 2 THEN <<6, 4>>[c] ELSE <<2, 3, 5>>[c]
    IN  Array(shape,
              [k \in 1..size |->
                  CASE p = 1 -> Good(Col(k))
                    [] p = 2 -> IF k = size THEN Good(Col(k)) + 1 ELSE Good(Col(k))
                    [] OTHER -> IF Col(k) = 1 THEN 15 ELSE IF Col(k) = 2 THEN -5 ELSE 0],
              10)

\* the arguments of the discrete Node
CoreNodeCalls ==
    [engine : {"discrete"},
     variable_name : {"D"},
     parent_nodes : {<<>>, <<NodeA>>, <<RootB>>, <<NodeA, RootB>>, <<NodeA, NodeB>>},
     cpd : {Cpd(shape, p) : shape \in {<<2>>, <<3>>, <<2, 2>>, <<3, 2>>, <<2, 3>>,
                                         <<2, 3, 2>>, <<2, 2, 3>>},
                             p \in 1..3}]

InitNode ==
    /\ mode = "node"
    /\ call \in NodeCalls \cup CoreNodeCalls
    /\ f = None /\ g = None /\ h = None /\ op = NoOp /\ res = None
    /\ net = None /\ act = Idle

\* Node(variable_name, domain, parent_variable_names, system_parameter_names,
\*      equation, marginal_pdf, distribution_parameters) of cassandra.network
DoNode ==
    /\ mode = "node" /\ op.name = "none" /\ call.engine = "continuous"
    /\ res' = Node(call.variable_name, call.domain, call.parent_variable_names,
                   call.system_parameter_names, call.equation, call.marginal_pdf,
                   call.distribution_parameters)
    /\ op' = [name |-> "Node", var |-> ""]
    /\ UNCHANGED <<mode, f, g, h, queryVars>>

\* Node(variable_name, parent_nodes, cpd) of cassandra.core
DoCoreNode ==
    /\ mode = "node" /\ op.name = "none" /\ call.engine = "discrete"
    /\ res' = CoreNode(9, call.variable_name, call.parent_nodes, call.cpd)
    /\ op' = [name |-> "Node", var |-> ""]
    /\ UNCHANGED <<mode, f, g, h, queryVars>>

\* node.to_factor().sum_out(node.variable_name) for the discrete node
\* constructed: f is the factor of the node, g what sum_out returns
DoSumOutOwn ==
    /\ mode = "node" /\ op.name = "Node" /\ call.engine = "discrete"
    /\ ~Raised(res)
    /\ f' = ToFactor(res)
    /\ g' = SumOut(ToFactor(res), res.variable_name)
    /\ op' = [name |-> "sum_out_own", var |-> res.variable_name]
    /\ UNCHANGED <<mode, h, res, queryVars>>

NextNode == DoNode \/ DoCoreNode \/ DoSumOutOwn

SpecNode == InitNode /\ [][NextNode]_vars

------------------------------------------------------------------------------
(* joint_pdf and infer on networks whose callables read the system        *)
(* parameters                                                              *)

\* a root whose density needs the system parameter `state`
RootState(name, lo, hi, loc) ==
    Node(name, <<lo, hi>>, <<>>, <<"state">>, None, Callable("state_norm"), RootParameters(loc, 1))

ThetaNodeLists ==
    { <<RootState("A", 0, 2, 1)>>,
      <<RootState("A", 0, 1, 0), ChildSum("B", 0, 2, <<"A">>)>>,
      <<RootNorm("A", 0, 1, 0), ChildSum("B", 0, 2, <<"A">>)>>,
      <<RootNorm("A", 0, 1, 0), RootState("B", 0, 1, 1), ChildSum("C", 0, 2, <<"A", "B">>)>> }

\* the arguments of infer, under two values of the system parameter
ThetaInferCalls(self) ==
    [query_variable_name : Keys(self.nodes),
     range : {<<0, 1>>, <<0, 2>>},
     evidence : Dicts(Keys(self.nodes), {0, 1}, MaxEvidence),
     system_parameter_values : {Theta, [k \in {"state"} |-> 2]}]

InitTheta ==
    /\ \E nodes \in ThetaNodeLists : net = BayesianNetwork(nodes)
    /\ \/ mode = "joint" /\ call \in JointPdfCalls(net) /\ act = Idle
       \/ mode = "infer" /\ call \in ThetaInferCalls(net) /\ act = StartActivation
    /\ f = None /\ g = None /\ h = None /\ op = NoOp /\ res = None

NextTheta == DoJointPdf \/ NextInfer

SpecTheta == InitTheta /\ [][NextTheta]_vars

-----------------------------------------------------------------------------
(* Both elimination engines: a discrete query or a continuous inference *)

InitElimination == InitQuery \/ InitInfer

NextElimination == NextQuery \/ NextInfer

SpecElimination == InitElimination /\ [][NextElimination]_vars

-----------------------------------------------------------------------------
(* Claims *)

FloatMul(x, y) == Float(x.num * y.num, x.den * y.den)

\* the full assignments of a discrete network that agree with the dict fixed
Completions(self, fixed) ==
    {x \in [GetVariableNames(self) -> 0..2] :
        /\ \A name \in GetVariableNames(self) :
               x[name] < GetCardinality(NodeNamed(self.nodes, name))
        /\ \A name \in DOMAIN fixed : x[name] = fixed[name]}

\* the sum of the joint probability over a set of full assignments, in
\* units of the product of the denominators of the CPTs
RECURSIVE MassOver(_, _)
MassOver(self, X) ==
    IF X = {} THEN 0
    ELSE LET x == CHOOSE y \in X : TRUE
         IN  EvaluateJointProbability(self, x).num + MassOver(self, X \ {x})

Mass(self, fixed) == MassOver(self, Completions(self, fixed))

\* P(Y | e) by enumeration of the joint distribution
BruteForce(self, Y, e) ==
    Float(Mass(self, [name \in DOMAIN Y \cup DOMAIN e |->
                         IF name \in DOMAIN Y THEN Y[name] ELSE e[name]]),
          Mass(self, e))

QueryReturned == mode = "query" /\ act.pc = "done" /\ ~Raised(act.ret)

\* C1: when query(Y, e) returns, on a valid network with valid, disjoint,
\* non-empty Y and evidence of positive probability, it returns P(Y | e) as
\* enumeration of the joint distribution gives it.
C1_QueryIsBruteForce ==
    (QueryReturned /\ Mass(net, call.e) > 0) =>
        FloatEq(act.ret, BruteForce(net, call.Y, call.e))

\* C2: after the elimination loop of a query the product of the remaining
\* factors has as its scope, taken as a set, exactly the query variables
\* together with the evidence variable names (query never fails its
\* assertion on the scope, infer has the same scope).
C2_ProductScopeIsQueryAndEvidence ==
    /\ (mode = "query" /\ act.pc = "finish") =>
           Range(act.phi.scope) = DOMAIN call.Y \cup DOMAIN call.e
    /\ (mode = "query" /\ act.pc = "done" /\ Raised(act.ret)) =>
           act.ret.exc # "AssertionError"
    /\ (mode = "infer" /\ act.pc \in {"normalise", "integrate"}) =>
           Range(act.phi.scope) = {call.query_variable_name} \cup DOMAIN call.evidence

\* a query of one variable under one evidence variable has eliminated the
\* two other variables of a network of four and multiplied what remained
C2_Witness ==
    /\ mode = "query" /\ act.pc = "finish"
    /\ Len(net.nodes) = 4
    /\ Cardinality(DOMAIN call.Y) = 1 /\ Cardinality(DOMAIN call.e) = 1

\* infer has returned a value (it has not raised)
InferReturned == mode = "infer" /\ act.pc = "done" /\ ~Raised(act.ret)

\* C3: whenever infer returns a value, for any existing query variable, any
\* range and any evidence, the value lies in [0, 1].
C3_InferReturnsProbability ==
    InferReturned =>
        /\ act.ret.kind = "float"
        /\ act.ret.den > 0
        /\ 0 <= act.ret.num
        /\ act.ret.num <= act.ret.den

\* the call asks for the whole domain of an existing query variable, with no
\* evidence
WholeDomainCall ==
    /\ call.query_variable_name \in Keys(net.nodes)
    /\ call.evidence = EmptyDict
    /\ call.range = NodeNamed(net.nodes, call.query_variable_name).domain

\* C4: infer(q, domain(q), {}, theta) returns 1.
C4_InferWholeDomainIsOne ==
    (mode = "infer" /\ act.pc = "done" /\ WholeDomainCall) =>
        /\ act.ret.kind = "float"
        /\ act.ret.den > 0
        /\ act.ret.num = act.ret.den

\* infer has returned for the whole domain of the last node of a network of
\* three, the two other variables having been eliminated
C4_Witness ==
    /\ mode = "infer" /\ act.pc = "done" /\ WholeDomainCall
    /\ Len(net.nodes) = 3
    /\ call.query_variable_name = "C"
    /\ act.ret.kind = "float"

\* C5: for tabular factors f and g with the same cardinality for the shared
\* variables, in whatever order their scopes list the variables, and every
\* assignment a over the union of the scopes,
\* f.multiply(g).evaluate(a) = f.evaluate(a|scope f) * g.evaluate(a|scope g).
C5_MultiplyIsPointwiseProduct ==
    (mode = "factor" /\ op.name = "multiply" /\ ~Raised(res)) =>
        \A a \in Assignments(res) :
            FloatEq(Evaluate(res, a),
                    FloatMul(Evaluate(f, Restrict(a, f)), Evaluate(g, Restrict(a, g))))

\* two tabular factors have the same value at every assignment of x
SameTable(x, y) ==
    /\ ~Raised(x) /\ ~Raised(y)
    /\ Range(x.scope) = Range(y.scope)
    /\ \A a \in Assignments(x) : FloatEq(Evaluate(x, a), Evaluate(y, a))

\* two functional factors have the same density at every point of the grid
SameDensity(x, y) ==
    /\ Range(x.scope) = Range(y.scope)
    /\ \A a \in Points(x.scope) : Pdf(x, a, Theta) = Pdf(y, a, Theta)

\* C6: multiplication is commutative and associative as a function of
\* assignments, for tabular and for functional factors, in whatever order
\* the scopes list the variables:
\* (f*g)(a) = (g*f)(a) and ((f*g)*h)(a) = (f*(g*h))(a).
C6_MultiplyCommutesAndAssociates ==
    /\ (mode = "factor" /\ op.name = "multiply") =>
           SameTable(res, Multiply(g, f))
    /\ (mode = "factor" /\ op.name = "multiply3") =>
           SameTable(res, Multiply(f, Multiply(g, h)))
    /\ (mode = "functional" /\ op.name = "mul") =>
           SameDensity(res, Mul(g, f))
    /\ (mode = "functional" /\ op.name = "mul3") =>
           SameDensity(res, Mul(f, Mul(g, h)))

\* a list has no duplicate
NoDuplicate(s) == \A i, j \in DOMAIN s : s[i] = s[j] => i = j

\* the members of s from position lo on come in the order they have in t
InOrderOf(s, lo, t) ==
    \A i, j \in lo..Len(s) : i < j => IndexOf(t, s[i]) < IndexOf(t, s[j])

\* C7: the scope of a product is the union of the scopes of the operands
\* without duplicate; for functional factors in sorted order, for tabular
\* factors the scope of the left operand followed by the variables of the
\* right operand that are not in it, in the order of the right operand.
C7_ProductScope ==
    /\ (mode = "factor" /\ op.name = "multiply") =>
           /\ ~Raised(res)
           /\ Range(res.scope) = Range(f.scope) \cup Range(g.scope)
           /\ NoDuplicate(res.scope)
           /\ SubSeq(res.scope, 1, Len(f.scope)) = f.scope
           /\ InOrderOf(res.scope, Len(f.scope) + 1, g.scope)
    /\ (mode = "functional" /\ op.name = "mul") =>
           /\ ~Raised(res)
           /\ Range(res.scope) = Range(f.scope) \cup Range(g.scope)
           /\ NoDuplicate(res.scope)
           /\ InOrderOf(res.scope, 1, VarOrder)

\* a tabular product of operands that share a variable, the right operand
\* bringing two new ones in an order that is not the sorted one
C7_Witness ==
    /\ mode = "factor" /\ op.name = "multiply"
    /\ f.scope = <<"B">> /\ g.scope = <<"C", "B", "A">>
    /\ res.scope = <<"B", "C", "A">>

\* the scope of the result is the scope of f without op.var, in the order
\* of f
ScopeWithout ==
    /\ ~Raised(res)
    /\ Range(res.scope) = Range(f.scope) \ {op.var}
    /\ NoDuplicate(res.scope)
    /\ InOrderOf(res.scope, 1, f.scope)

\* C8, as stated: for any factor phi and any v in scope(phi), eliminating v
\* (sum_out, _marginalise_factor) returns a factor whose scope is scope(phi)
\* without v, the other variables keeping their relative order.
C8_EliminateScope_Original ==
    /\ (mode = "factor" /\ op.name = "sum_out" /\ InList(f.scope, op.var)) =>
           ScopeWithout
    /\ (mode = "functional" /\ op.name = "marginalise" /\ InList(f.scope, op.var)) =>
           ScopeWithout

\* C8, amended: the same for a tabular factor with at least one variable
\* other than v, and for any functional factor; sum_out raises when v is the
\* only variable of a tabular factor.
C8_EliminateScope ==
    /\ (mode = "factor" /\ op.name = "sum_out" /\ InList(f.scope, op.var)) =>
           IF Len(f.scope) >= 2 THEN ScopeWithout ELSE Raised(res)
    /\ (mode = "functional" /\ op.name = "marginalise" /\ InList(f.scope, op.var)) =>
           ScopeWithout

\* the middle variable of a tabular factor of three has been summed out
C8_Witness ==
    /\ mode = "factor" /\ op.name = "sum_out"
    /\ Len(f.scope) = 3 /\ op.var = f.scope[2]
    /\ res.scope = <<f.scope[1], f.scope[3]>>

\* the names of the nodes of a list and of their parents
NameOf(node) == node.variable_name

ParentNamesOf(node) ==
    IF call.engine = "continuous" THEN Range(node.parent_variable_names)
    ELSE {node.parent_nodes[k].variable_name : k \in DOMAIN node.parent_nodes}

\* there is a path of parent-to-child edges, of at most n edges, from the
\* node named x to the node named y of the list nodes
RECURSIVE Path(_, _, _, _)
Path(nodes, x, y, n) ==
    /\ n > 0
    /\ \E i \in DOMAIN nodes :
           /\ NameOf(nodes[i]) = y
           /\ \E p \in ParentNamesOf(nodes[i]) :
                  p = x \/ Path(nodes, x, p, n - 1)

\* the edges the list induces contain a directed cycle
HasCycle(nodes) ==
    \E i \in DOMAIN nodes : Path(nodes, NameOf(nodes[i]), NameOf(nodes[i]), Len(nodes))

Constructed == mode = "construct" /\ act.pc = "done"

\* C9: the construction of a network fails whenever the parent-to-child
\* edges of the given nodes contain a directed cycle (a node that is its own
\* parent, two nodes that are each other's parent).
C9_CycleIsRejected ==
    (Constructed /\ HasCycle(call.nodes)) => Raised(net)

\* some node of the list has a parent that is not a node of the list
OpenList(nodes) ==
    \E i \in DOMAIN nodes :
        IF call.engine = "continuous"
        THEN \E p \in Range(nodes[i].parent_variable_names) :
                 \A j \in DOMAIN nodes : nodes[j].variable_name # p
        ELSE \E k \in DOMAIN nodes[i].parent_nodes :
                 \A j \in DOMAIN nodes : nodes[j] # nodes[i].parent_nodes[k]

\* every parent of every node of a constructed network has its name among
\* the names of the nodes of the network
ClosedNetwork(self) ==
    \A i \in DOMAIN self.nodes :
        ParentNamesOf(self.nodes[i]) \subseteq Keys(self.nodes)

\* C10: the construction of a network raises whenever some node of the list
\* names a parent that is not a node of the list, wherever that node stands
\* in the list, and every constructed network is closed.
C10_OpenListIsRejected ==
    Constructed =>
        /\ OpenList(call.nodes) => Raised(net)
        /\ ~Raised(net) => ClosedNetwork(net)

\* two distinct nodes of the list have the same variable name
DuplicateNames(nodes) ==
    \E i, j \in DOMAIN nodes :
        /\ nodes[i] # nodes[j]
        /\ nodes[i].variable_name = nodes[j].variable_name

\* C11: the construction of a network raises for a list in which two
\* distinct nodes have the same variable name; a constructed network has one
\* node per entry of the list and no two nodes of the same name.
C11_DuplicateNameIsRejected ==
    Constructed =>
        /\ DuplicateNames(call.nodes) => Raised(net)
        /\ ~Raised(net) =>
               /\ Len(net.nodes) = Len(call.nodes)
               /\ \A i, j \in DOMAIN net.nodes :
                      net.nodes[i].variable_name = net.nodes[j].variable_name => i = j

\* the values infer can return or raise from the activation a on, run alone
RECURSIVE InferOutcomes(_, _, _)
InferOutcomes(self, c, a) ==
    IF a.pc = "done" THEN {a.ret}
    ELSE UNION {InferOutcomes(self, c, b) : b \in InferSuccessors(self, c, a)}

\* the values query can return or raise from the activation a on, run alone
RECURSIVE QueryOutcomes(_, _, _)
QueryOutcomes(self, c, a) ==
    IF a.pc = "done" THEN {a.ret}
    ELSE UNION {QueryOutcomes(self, c, b) : b \in QuerySuccessors(self, c, a)}

\* what a call can return or raise when it runs alone on the network
Alone(self, c) ==
    IF self.kind = "BayesianNetwork" THEN InferOutcomes(self, c, StartActivation)
    ELSE QueryOutcomes(self, c, StartActivation)

C13_OperandsAreUnchanged ==
    [][(mode = "factor" \/ mode = "functional") =>
          /\ f' = f
          /\ g' = g
          /\ h' = h]_vars


\* the names a call gives: the query and the evidence
NamesOfCall ==
    IF mode = "infer"
    THEN {call.query_variable_name} \cup DOMAIN call.evidence
    ELSE DOMAIN call.Y \cup DOMAIN call.e

UnknownName ==
    /\ mode = "infer" \/ mode = "query"
    /\ \E name \in NamesOfCall : \A i \in DOMAIN net.nodes : net.nodes[i].variable_name # name

\* C14: a call with a query name or an evidence name that is not a node of
\* the network takes one step only, its validation, which raises an error
\* with no factor created and no elimination, product or integration done,
\* and which leaves the network as it was
C14_UnknownNameRaisesFirst ==
    [][UnknownName =>
          /\ act.pc = "start"
          /\ act'.pc = "done"
          /\ Raised(act'.ret)
          /\ act'.factors = <<>> /\ act'.phi = None /\ act'.alpha = None
          /\ net' = net]_vars

C14_Witness ==
    /\ UnknownName /\ mode = "infer"
    /\ call.query_variable_name \in Keys(net.nodes)
    /\ act.pc = "done" /\ Raised(act.ret) /\ act.ret.exc = "ValueError"


\* the evidence of an infer call gives some node a value outside its domain
EvidenceOutsideDomain ==
    /\ mode = "infer"
    /\ \E i \in DOMAIN net.nodes :
           LET node == net.nodes[i]
           IN  /\ node.variable_name \in DOMAIN call.evidence
               /\ \/ call.evidence[node.variable_name] < node.domain[1]
                  \/ call.evidence[node.variable_name] > node.domain[2]

\* C15: an infer call whose evidence gives a variable a value outside its
\* domain ends with a validation error, raised by the first step of the
\* call, and never with a returned value
C15_EvidenceOutsideDomainIsRejected ==
    (EvidenceOutsideDomain /\ act.pc # "start") =>
        (act.pc = "done" /\ Raised(act.ret) /\ act.ret.exc = "ValueError")


\* infer has computed a normaliser alpha that is zero and has ended
ZeroNormaliser ==
    /\ mode = "infer" /\ act.pc = "done"
    /\ act.alpha.kind = "num" /\ act.alpha.v = 0

\* C16: a call of infer whose normaliser alpha is zero ends with the
\* UnsupportedEvidence error: not with a returned value, and not with
\* another error
C16_ZeroNormaliserIsUnsupportedEvidence ==
    ZeroNormaliser => (Raised(act.ret) /\ act.ret.exc = "UnsupportedEvidence")


\* variable_values gives a variable of scope a value outside the domain of
\* its node in the network self
OutsideDomain(self, scope, variable_values) ==
    \E v \in Range(scope) :
        LET node == NodeNamed(self.nodes, v)
        IN  variable_values[v] < node.domain[1] \/ variable_values[v] > node.domain[2]

\* C17: the pdf of a functional factor, a node's or a product's, returns 0
\* at every assignment that gives a variable of its scope, the node's own or
\* a parent, a value outside the domain of that variable
C17_PdfIsZeroOutsideAnyDomain ==
    (mode = "functional" /\ op.name = "pdf" /\ OutsideDomain(net, f.scope, call))
        => (res.kind = "num" /\ res.v = 0)


\* the call of joint_pdf leaves out a variable of the network, or a system
\* parameter a node names, or gives a variable a value outside its domain
InvalidJointPdfCall ==
    /\ net.kind = "BayesianNetwork"
    /\ \/ \E i \in DOMAIN net.nodes :
              net.nodes[i].variable_name \notin DOMAIN call.variable_values
       \/ \E i \in DOMAIN net.nodes :
              \E k \in DOMAIN net.nodes[i].system_parameter_names :
                  net.nodes[i].system_parameter_names[k]
                      \notin DOMAIN call.system_parameter_values
       \/ \E i \in DOMAIN net.nodes :
              LET node == net.nodes[i]
              IN  /\ node.variable_name \in DOMAIN call.variable_values
                  /\ \/ call.variable_values[node.variable_name] < node.domain[1]
                     \/ call.variable_values[node.variable_name] > node.domain[2]

\* the call of evaluate_joint_probability leaves out a variable of the
\* network or gives a variable a state it does not have
InvalidJointProbabilityCall ==
    /\ net.kind = "Network"
    /\ \/ \E i \in DOMAIN net.nodes : net.nodes[i].variable_name \notin DOMAIN call.e
       \/ \E i \in DOMAIN net.nodes :
              LET node == net.nodes[i]
              IN  /\ node.variable_name \in DOMAIN call.e
                  /\ \/ call.e[node.variable_name] < 0
                     \/ call.e[node.variable_name] >= GetCardinality(node)

JointDone == mode = "joint" /\ op.name # "none"

\* C18: joint_pdf (and evaluate_joint_probability) raises an error and
\* returns no number when a variable of the network is missing from the
\* assignment, when a system parameter named by a node is missing, or when
\* the value of any variable, of whichever node, lies outside its domain
C18_InvalidJointCallRaises ==
    (JointDone /\ (InvalidJointPdfCall \/ InvalidJointProbabilityCall)) => Raised(res)

\* a value outside the domain of the last node only, all else being valid
C18_Witness ==
    /\ JointDone /\ net.kind = "BayesianNetwork" /\ Len(net.nodes) = 3
    /\ DOMAIN call.variable_values = Keys(net.nodes)
    /\ call.system_parameter_values = Theta
    /\ \A i \in 1..2 :
           LET node == net.nodes[i]
           IN  /\ call.variable_values[node.variable_name] >= node.domain[1]
               /\ call.variable_values[node.variable_name] <= node.domain[2]
    /\ call.variable_values[net.nodes[3].variable_name] < net.nodes[3].domain[1]
    /\ Raised(res) /\ res.exc = "ValueError"

\* the call of joint_pdf or evaluate_joint_probability is valid and complete:
\* it gives a value to each variable of the network and to nothing else
ValidJointCall ==
    /\ JointDone
    /\ ~InvalidJointPdfCall /\ ~InvalidJointProbabilityCall
    /\ Keys(net.nodes) = DOMAIN (IF net.kind = "Network" THEN call.e
                                                         ELSE call.variable_values)

\* the density of one node of a continuous network at an assignment
LocalDensity(node, variable_values, system_parameter_values) ==
    LET parent_variable_values ==
            [name \in Range(node.parent_variable_names) |-> variable_values[name]]
    IN  IF Len(node.parent_variable_names) = 0
        THEN MarginalPdf(node, variable_values[node.variable_name],
                         system_parameter_values)
        ELSE ConditionalPdf(node, variable_values[node.variable_name],
                            parent_variable_values, system_parameter_values)

\* the product of the local densities of the nodes named in names
RECURSIVE DensityProduct(_, _)
DensityProduct(self, names) ==
    IF names = {} THEN 1
    ELSE LET name == CHOOSE n \in names : TRUE
         IN  LocalDensity(NodeNamed(self.nodes, name), call.variable_values,
                          call.system_parameter_values).v
                 * DensityProduct(self, names \ {name})

\* the product of the conditional probabilities of the nodes named in names
RECURSIVE ProbabilityProduct(_, _)
ProbabilityProduct(self, names) ==
    IF names = {} THEN Float(1, 1)
    ELSE LET name == CHOOSE n \in names : TRUE
             node == NodeNamed(self.nodes, name)
             parents == {node.parent_nodes[k].variable_name : k \in DOMAIN node.parent_nodes}
         IN  FloatMul(ComputeConditionalProbability(node, call.e[name],
                                                    [p \in parents |-> call.e[p]]),
                      ProbabilityProduct(self, names \ {name}))

\* C19: for a valid and complete assignment joint_pdf returns the product
\* of the local densities of the nodes, the marginal density of a root and
\* the conditional density of a child given its own parents, each node
\* taken once, and the result is not negative
C19_JointIsProductOfLocalDensities ==
    ValidJointCall =>
        IF net.kind = "BayesianNetwork"
        THEN /\ res.kind = "num"
             /\ res.v = DensityProduct(net, Keys(net.nodes))
             /\ res.v >= 0
        ELSE /\ res.kind = "float"
             /\ FloatEq(res, ProbabilityProduct(net, GetVariableNames(net)))
             /\ res.num >= 0 /\ res.den > 0

\* a network of a root and two children, each with a density other than 1
C19_Witness ==
    /\ ValidJointCall /\ net.kind = "BayesianNetwork" /\ Len(net.nodes) = 3
    /\ \E i \in DOMAIN net.nodes : Len(net.nodes[i].parent_variable_names) = 2
    /\ \A i \in DOMAIN net.nodes :
           LocalDensity(net.nodes[i], call.variable_values,
                        call.system_parameter_values).v > 1
    /\ res.kind = "num" /\ res.v > 8


\* the factors sum_product_eliminate was given, and those of them with and
\* without the eliminated variable in their scope
GivenFactors == <<f, g, h>>

RelevantGiven == {i \in 1..3 : InList(GivenFactors[i].scope, op.var)}

IrrelevantGiven ==
    LET Irrelevant(factor) == ~InList(factor.scope, op.var)
    IN  SelectSeq(GivenFactors, Irrelevant)

Eliminated ==
    mode = "algorithm" /\ op.name = "sum_product_eliminate" /\ RelevantGiven # {}

\* the result is the factors without the variable, unchanged, and one more
\* factor, whose scope is the union of the scopes of the others without the
\* variable
EliminatedStructure ==
    /\ ~Raised(res)
    /\ Len(res.members) = Len(IrrelevantGiven) + 1
    /\ SubSeq(res.members, 1, Len(IrrelevantGiven)) = IrrelevantGiven
    /\ Range(Last(res.members).scope) =
           UNION {Range(GivenFactors[i].scope) : i \in RelevantGiven} \ {op.var}
    /\ \A k \in DOMAIN res.members : ~InList(res.members[k].scope, op.var)

\* the numerator, over 10 to the number of factors, of the product of the
\* factors of indices S at the assignment a
RECURSIVE ProductAt(_, _)
ProductAt(S, a) ==
    IF S = {} THEN 1
    ELSE LET i == CHOOSE k \in S : TRUE
         IN  Evaluate(GivenFactors[i], Restrict(a, GivenFactors[i])).num
                 * ProductAt(S \ {i}, a)

\* 10 to the power n
RECURSIVE TenTo(_)
TenTo(n) == IF n = 0 THEN 1 ELSE 10 * TenTo(n - 1)

\* the values of the new factor are the sum over the eliminated variable of
\* the product of the factors that have it
EliminatedValues ==
    LET tau == Last(res.members)
        first == GivenFactors[CHOOSE i \in RelevantGiven : TRUE]
        states == 0..(CardOf(first)[op.var] - 1)
        RECURSIVE SumFrom(_, _)
        SumFrom(a, x) ==
            IF x \notin states THEN 0
            ELSE ProductAt(RelevantGiven, DictSet(a, op.var, x)) + SumFrom(a, x + 1)
    IN  \A a \in Assignments(tau) :
            Evaluate(tau, a).num * TenTo(Cardinality(RelevantGiven))
                = SumFrom(a, 0) * Evaluate(tau, a).den

\* C20: sum_product_eliminate(factors, v), v being in the scope of a factor,
\* returns the factors without v, unchanged, and one new factor, whose scope
\* is the union of the scopes of the factors with v, less v, and whose
\* values are the sum over v of their product; it returns one factor more
\* than there are factors without v, and v is in the scope of none
C20_EliminateReplacesRelevantFactors ==
    Eliminated => (EliminatedStructure /\ EliminatedValues)


PdfCalled == mode = "pdf" /\ op.name = "pdf"

\* C21: the pdf of a functional factor, of a node, a product or a
\* marginalised factor, raises the KeyError for missing values exactly when
\* a variable of its scope is not a key of the assignment; keys outside the
\* scope are accepted and the value returned is the value returned without
\* them
C21_PdfNeedsExactlyItsScope ==
    PdfCalled =>
        IF Range(f.scope) \subseteq DOMAIN call
        THEN /\ ~Raised(res)
             /\ res = Pdf(f, DictFilter(call, f.scope), Theta)
        ELSE /\ Raised(res) /\ res.exc = "KeyError"
             /\ res.msg = "The values of all variables in the scope must be provided."

\* a marginalised factor has been called with a value for the variable it
\* has integrated out, and with a key that is no variable
C21_Witness ==
    /\ PdfCalled /\ f.pdf.tag = "marg" /\ f.scope # <<>>
    /\ f.pdf.variable \in DOMAIN call /\ "Z" \in DOMAIN call
    /\ Range(f.scope) \subseteq DOMAIN call
    /\ res.kind = "num" /\ res.v > 0


\* the position, from 0, in C order of the element of an array of the given
\* shape at the indices idx: the last index runs fastest
RECURSIVE FlatIndex(_, _)
FlatIndex(shape, idx) ==
    IF Len(shape) = 0 THEN 0
    ELSE FlatIndex(Front(shape), Front(idx)) * Last(shape) + Last(idx)

\* the assignment has exactly the variables of the scope of f as keys and
\* gives each an integer that is one of its states
ValidAssignment ==
    /\ DOMAIN call.assignments = Range(f.scope)
    /\ call.non_integers = {}
    /\ \A v \in Range(f.scope) :
           /\ call.assignments[v] >= 0
           /\ call.assignments[v] < f.values.shape[IndexOf(f.scope, v)]

\* C22: evaluate raises ValueError unless the keys of the assignment are
\* exactly the variables of the scope and every value is an integer from 0
\* to below the cardinality of its variable; otherwise it returns the
\* element of the values at the indices taken in the order of the scope
C22_EvaluateValidatesAndIndexes ==
    (mode = "evaluate" /\ op.name = "evaluate") =>
        IF ValidAssignment
        THEN res = Float(f.values.data[
                             FlatIndex(f.values.shape,
                                       [i \in DOMAIN f.scope |->
                                           call.assignments[f.scope[i]]]) + 1],
                         f.values.den)
        ELSE Raised(res) /\ res.exc = "ValueError"

\* a factor whose scope is not in alphabetical order, evaluated at its last
\* element but one
C22_Witness ==
    /\ mode = "evaluate" /\ op.name = "evaluate" /\ ValidAssignment
    /\ f.scope = <<"C", "B", "A">> /\ f.values.shape = <<2, 3, 2>>
    /\ call.assignments = [v \in {"A", "B", "C"} |-> IF v = "B" THEN 2 ELSE IF v = "C" THEN 1 ELSE 0]
    /\ res = Float(f.values.data[11], f.values.den)


\* C23: sum_out(v) raises an error when v is not in the scope of the factor,
\* as _marginalise_factor does, and when v is the only variable of the
\* scope; no factor is returned and the factor is after the call what it
\* was before it
C23_SumOutRejectsAbsentAndOnlyVariable ==
    [][/\ (mode = "factor" /\ op.name = "none" /\ op'.name = "sum_out"
               /\ (~InList(f.scope, op'.var) \/ f.scope = <<op'.var>>)) =>
                  (Raised(res') /\ res'.exc = "ValueError" /\ f' = f)
       /\ (mode = "functional" /\ op.name = "none" /\ op'.name = "marginalise"
               /\ ~InList(f.scope, op'.var)) =>
                  (Raised(res') /\ res'.exc = "ValueError" /\ f' = f)]_vars

\* the only variable of a factor has been summed out
C23_Witness ==
    /\ mode = "factor" /\ op.name = "sum_out"
    /\ f.scope = <<op.var>>
    /\ Raised(res) /\ res.msg = "The variable is the only variable in the factor"


NodeConstructed(engine) == mode = "node" /\ op.name = "Node" /\ call.engine = engine

\* C24: the construction of a continuous node raises an error exactly when
\* it has no parent and no marginal density or no distribution parameters,
\* or has parents and no equation; otherwise it succeeds, and the type of
\* the node is ROOT if and only if it has no parent
C24_NodeNeedsDensityOrEquation ==
    NodeConstructed("continuous") =>
        LET no_parent == call.parent_variable_names = <<>>
            incomplete ==
                \/ no_parent /\ (call.marginal_pdf = None
                                     \/ call.distribution_parameters = None)
                \/ ~no_parent /\ call.equation = None
        IN  IF incomplete
            THEN Raised(res)
            ELSE /\ ~Raised(res)
                 /\ res.type \in {"ROOT", "CHILD"}
                 /\ res.type = "ROOT" <=> no_parent

\* a child given an equation and nothing else, and a root given a density
\* and parameters
C24_Witness ==
    /\ NodeConstructed("continuous") /\ ~Raised(res) /\ res.type = "CHILD"
    /\ call.marginal_pdf = None /\ call.distribution_parameters = None
    /\ Len(call.parent_variable_names) = 2


\* the sum of row k (from 1) of a CPD: of its k-th slice along the last axis
RowSum(cpd, k) ==
    LET n == Last(cpd.shape)
    IN  SeqSum([c \in 1..n |-> cpd.data[(k - 1) * n + c]])

Rows(cpd) == 1..(SeqProd(cpd.shape) \div Last(cpd.shape))

\* the shape of the CPD is the cardinalities of the parents followed by
\* the cardinality of the node
ShapeFitsParents ==
    /\ Len(call.cpd.shape) = Len(call.parent_nodes) + 1
    /\ \A i \in DOMAIN call.parent_nodes :
           call.cpd.shape[i] = Last(call.parent_nodes[i].cpd.shape)

RowsSumToOne(cpd) == \A k \in Rows(cpd) : RowSum(cpd, k) = cpd.den

\* each row is a probability distribution: its entries are probabilities
\* and sum to 1
RowsAreDistributions(cpd) ==
    /\ RowsSumToOne(cpd)
    /\ \A k \in DOMAIN cpd.data : cpd.data[k] >= 0 /\ cpd.data[k] <= cpd.den

\* the construction of a discrete node raises ValueError unless the shape of
\* the CPD fits and each row sums to 1
CoreNodeChecksShapeAndSums ==
    NodeConstructed("discrete") =>
        (Raised(res) <=> ~(ShapeFitsParents /\ RowsSumToOne(call.cpd)))

\* C25: the construction of a discrete node raises ValueError unless the
\* shape of the CPD is the cardinalities of the parents followed by that
\* of the node and each slice along the last axis sums to 1; the rows of
\* the CPD of every node constructed are probability distributions
C25_ConstructedCpdRowsAreDistributions ==
    NodeConstructed("discrete") =>
        /\ ~(ShapeFitsParents /\ RowsSumToOne(call.cpd)) =>
               (Raised(res) /\ res.exc = "ValueError")
        /\ ~Raised(res) => RowsAreDistributions(res.cpd)


SummedOutOwn == mode = "node" /\ op.name = "sum_out_own"

\* the factor g is over the parents of the node and all its entries are 1
OnesOverParents ==
    /\ ~Raised(g)
    /\ g.scope = [i \in DOMAIN res.parent_nodes |-> res.parent_nodes[i].variable_name]
    /\ \A k \in DOMAIN g.values.data : g.values.data[k] = g.values.den

\* C26, as stated: for the tabular factor of any discrete node, summing out
\* the node's own variable gives a factor over the parents of the node all
\* of whose entries are 1.
C26_OwnVariableSumsToOnes_Original ==
    SummedOutOwn => OnesOverParents

\* C26, amended: the same for any discrete node with at least one parent;
\* for a node without parent sum_out raises, its variable being the only
\* variable of the factor.
C26_OwnVariableSumsToOnes ==
    SummedOutOwn =>
        IF Len(res.parent_nodes) >= 1
        THEN OnesOverParents
        ELSE Raised(g) /\ g.exc = "ValueError"

\* a node with two parents of two and three states
C26_Witness ==
    /\ SummedOutOwn /\ Len(res.parent_nodes) = 2
    /\ ~Raised(g) /\ g.scope = <<"A", "B">> /\ g.values.shape = <<2, 3>>
    /\ g.values.data = <<10, 10, 10, 10, 10, 10>>


\* two results are the same: the same number, or the same other outcome
SameResult(x, y) ==
    IF x.kind = "float" /\ y.kind = "float" THEN FloatEq(x, y) ELSE x = y

EliminationDone == (mode = "infer" \/ mode = "query") /\ act.pc = "done"

\* the permutations of the elimination set of the running call
EliminationOrderings ==
    IF net.kind = "BayesianNetwork"
    THEN Orderings(InferEliminationSet(net, call.query_variable_name, call.evidence))
    ELSE Orderings(QueryEliminationSet(net, call.Y, call.e))

\* what the running call can return or raise once it has taken the ordering
OutcomesUnder(ordering) ==
    IF net.kind = "BayesianNetwork"
    THEN InferOutcomes(net, call,
                       InferStart(net, call.query_variable_name, call.evidence, ordering))
    ELSE QueryOutcomes(net, call, QueryStart(net, call.Y, call.e, ordering))

\* C27: for a fixed network, query, range and evidence, what infer (and
\* query) returns is what it returns under every other permutation of the
\* elimination set taken as the elimination ordering
C27_ResultIsIndependentOfOrdering ==
    EliminationDone =>
        \A ordering \in EliminationOrderings :
            \E r \in OutcomesUnder(ordering) : SameResult(act.ret, r)


\* the query is at the head of a turn of its elimination loop
QueryEliminating == mode = "query" /\ act.pc = "eliminate" /\ act.ordering # <<>>

\* the variables in the scopes of the current factors that have v
ProductScope(factors, v) ==
    UNION {Range(factors[i].scope) : i \in {j \in DOMAIN factors : InList(factors[j].scope, v)}}

\* C28: in a query on a valid network, the product of the factors that have
\* the variable about to be eliminated has another variable in its scope, and
\* the elimination step succeeds
C28_EliminationNeverCollapses ==
    [][QueryEliminating =>
          /\ ProductScope(act.factors, Head(act.ordering)) # {Head(act.ordering)}
          /\ ~Raised(act'.ret)]_vars


\* a call of infer or query is at the head of a turn of its elimination loop
Eliminating ==
    (mode = "infer" \/ mode = "query") /\ act.pc = "eliminate" /\ act.ordering # <<>>

\* the variable v is in the scope of one of the factors
InSomeScope(factors, v) == \E i \in DOMAIN factors : InList(factors[i].scope, v)

\* the variable names of the network of either engine
NetworkNames ==
    IF net.kind = "BayesianNetwork" THEN Keys(net.nodes) ELSE GetVariableNames(net)

\* the elimination set of the running call
EliminationSet ==
    IF net.kind = "BayesianNetwork"
    THEN InferEliminationSet(net, call.query_variable_name, call.evidence)
    ELSE QueryEliminationSet(net, call.Y, call.e)

\* C29: at every turn of the elimination loop the variable about to be
\* eliminated is in the scope of a current factor; after the turn it is in
\* the scope of none, as is every variable eliminated before it, and every
\* variable not yet eliminated (the query and evidence variables among them)
\* is in the scope of a current factor
C29_EliminationRemovesExactlyTheVariable ==
    [][Eliminating =>
          /\ InSomeScope(act.factors, Head(act.ordering))
          /\ act'.pc = "eliminate" =>
                 \A v \in NetworkNames :
                     InSomeScope(act'.factors, v) <=>
                         v \notin EliminationSet \ Range(act'.ordering)]_vars

\* a query with evidence has eliminated two variables
C29_Witness ==
    /\ mode = "query" /\ act.pc = "eliminate" /\ act.ordering = <<>>
    /\ Cardinality(EliminationSet) = 2 /\ DOMAIN call.e # {}
    /\ \A v \in EliminationSet : ~InSomeScope(act.factors, v)
    /\ \A v \in DOMAIN call.Y \cup DOMAIN call.e : InSomeScope(act.factors, v)


\* what a call raises when the user's density is not given `state`
StateNotHanded == Raise("TypeError", "missing 1 required positional argument: 'state'")

\* joint_pdf was called with every system parameter of the network
JointPdfCalledWithTheta ==
    /\ mode = "joint" /\ op.name = "joint_pdf"
    /\ net.system_parameter_names \subseteq DOMAIN call.system_parameter_values

\* the scopes of the factors a call of infer holds
InferScopes ==
    {Range(act.factors[i].scope) : i \in DOMAIN act.factors}
        \cup (IF act.phi = None THEN {} ELSE {Range(act.phi.scope)})

\* C30: the system parameters given to joint_pdf or infer are handed to every
\* user-supplied callable evaluated, the structural equations of the children
\* and the marginal densities of the roots, so that no callable is left
\* without a system parameter it reads; and no system parameter name is a
\* member of a factor scope
C30_ThetaReachesEveryCallable ==
    /\ JointPdfCalledWithTheta =>
           res # StateNotHanded /\ res # Raise("KeyError", "state")
    /\ (mode = "infer" /\ act.pc = "done") =>
           act.ret # StateNotHanded /\ act.ret # Raise("KeyError", "state")
    /\ mode = "infer" =>
           \A scope \in InferScopes : scope \cap net.system_parameter_names = {}

=============================================================================
